---- MODULE Spec2Model ----
(***************************************************************************)
(* A model of reSink's updater (source/reupdater.py): the pure text        *)
(* functions (normalize_os_tag, _version_key, compare_versions,            *)
(* parse_descriptor, build_download_url) as operators over sequences of    *)
(* characters, and UpdateClient (check_now, the network reply, the timer,  *)
(* the dialogs, _finish/_emit) as a state machine.                         *)
(*                                                                         *)
(* A Python str is a sequence of one-character strings: "1.2" is           *)
(* <<"1", ".", "2">>.  A tuple is a sequence.  Optional[UpdateEntry] is    *)
(* either an entry record or None.                                         *)
(***************************************************************************)
EXTENDS Integers, Sequences, FiniteSets, TLC

(***************************************************************************)
(* Characters                                                              *)
(***************************************************************************)

\* The printable ASCII characters in code order: AsciiPrintable[i] has code 31 + i
\* (code 96, the grave accent, is held by a name: no text of the model uses it).
AsciiPrintable ==
  << " ", "!", "\"", "#", "$", "%", "&", "'", "(", ")", "*", "+", ",", "-", ".", "/",
     "0", "1", "2", "3", "4", "5", "6", "7", "8", "9", ":", ";", "<", "=", ">", "?",
     "@", "A", "B", "C", "D", "E", "F", "G", "H", "I", "J", "K", "L", "M", "N", "O",
     "P", "Q", "R", "S", "T", "U", "V", "W", "X", "Y", "Z", "[", "\\", "]", "^", "_",
     "grave", "a", "b", "c", "d", "e", "f", "g", "h", "i", "j", "k", "l", "m", "n", "o",
     "p", "q", "r", "s", "t", "u", "v", "w", "x", "y", "z", "{", "|", "}", "~" >>

\* ord(c) for the characters of the model: the printable ones, tab, LF and CR.
Ord(c) ==
  CASE c = "\t" -> 9
    [] c = "\n" -> 10
    [] c = "\r" -> 13
    [] OTHER -> 31 + (CHOOSE i \in 1..Len(AsciiPrintable) : AsciiPrintable[i] = c)

\* chr(n) for 32 <= n <= 126.
Chr(n) == AsciiPrintable[n - 31]

\* The characters str.strip() and the regex class \s remove.
Whitespace == {" ", "\t", "\n", "\r"}

\* The characters the regex class \d matches.
Digits == {"0", "1", "2", "3", "4", "5", "6", "7", "8", "9"}

\* str.lower() on one character.
LowerChar(c) ==
  IF c \in Whitespace THEN c
  ELSE LET n == Ord(c) IN IF n >= 65 /\ n <= 90 THEN Chr(n + 32) ELSE c

(***************************************************************************)
(* str methods                                                             *)
(***************************************************************************)

\* s[i:] for 1-based i.
DropTo(s, i) == SubSeq(s, i, Len(s))

\* str.lower().
Lower(s) == [i \in 1..Len(s) |-> LowerChar(s[i])]

\* str.lstrip(chars): every leading character that is in chars is removed.
RECURSIVE LStripSet(_, _)
LStripSet(s, chars) ==
  IF s # <<>> /\ Head(s) \in chars THEN LStripSet(Tail(s), chars) ELSE s

\* str.rstrip(chars).
RECURSIVE RStripSet(_, _)
RStripSet(s, chars) ==
  IF s # <<>> /\ s[Len(s)] \in chars
  THEN RStripSet(SubSeq(s, 1, Len(s) - 1), chars) ELSE s

\* str.strip().
Strip(s) == RStripSet(LStripSet(s, Whitespace), Whitespace)

\* The index of the first character of s that is in chars, 0 when there is none.
RECURSIVE FindFrom(_, _, _)
FindFrom(s, chars, i) ==
  IF i > Len(s) THEN 0
  ELSE IF s[i] \in chars THEN i ELSE FindFrom(s, chars, i + 1)

\* str.split(sep) for a one-character sep, and re.split(r"[chars]", s): every
\* separator character ends a piece, so k separators give k + 1 pieces.
RECURSIVE SplitOn(_, _)
SplitOn(s, chars) ==
  LET i == FindFrom(s, chars, 1)
  IN IF i = 0 THEN <<s>>
     ELSE <<SubSeq(s, 1, i - 1)>> \o SplitOn(DropTo(s, i + 1), chars)

\* re.split(r"[chars]+", s): a run of separator characters ends a piece.
RECURSIVE SplitOnRuns(_, _)
SplitOnRuns(s, chars) ==
  LET i == FindFrom(s, chars, 1)
  IN IF i = 0 THEN <<s>>
     ELSE <<SubSeq(s, 1, i - 1)>> \o SplitOnRuns(LStripSet(DropTo(s, i + 1), chars), chars)

\* str.splitlines(): "\n", "\r" and "\r\n" end a line; no empty last line.
RECURSIVE SplitLines(_)
SplitLines(s) ==
  LET i == FindFrom(s, {"\n", "\r"}, 1)
      j == IF i # 0 /\ s[i] = "\r" /\ i < Len(s) /\ s[i + 1] = "\n" THEN i + 2 ELSE i + 1
  IN IF s = <<>> THEN <<>>
     ELSE IF i = 0 THEN <<s>>
     ELSE <<SubSeq(s, 1, i - 1)>> \o SplitLines(DropTo(s, j))

\* [f(x) for x in seq if keep(x)] building blocks.
RECURSIVE SelectNonBlank(_)
SelectNonBlank(seq) ==
  IF seq = <<>> THEN <<>>
  ELSE IF Strip(Head(seq)) # <<>>
       THEN <<Head(seq)>> \o SelectNonBlank(Tail(seq))
       ELSE SelectNonBlank(Tail(seq))

\* Whether s starts with the characters of p.
StartsWith(s, p) == Len(s) >= Len(p) /\ SubSeq(s, 1, Len(p)) = p

\* Several strings joined into one.
RECURSIVE Concat(_)
Concat(seqs) == IF seqs = <<>> THEN <<>> ELSE Head(seqs) \o Concat(Tail(seqs))

\* sep.join(seqs).
RECURSIVE Join(_, _)
Join(seqs, sep) ==
  IF seqs = <<>> THEN <<>>
  ELSE IF Len(seqs) = 1 THEN Head(seqs)
  ELSE Head(seqs) \o sep \o Join(Tail(seqs), sep)

(***************************************************************************)
(* normalize_os_tag                                                        *)
(***************************************************************************)

s_darwin == <<"d", "a", "r", "w", "i", "n">>
s_mac == <<"m", "a", "c">>
s_macos == <<"m", "a", "c", "o", "s">>
s_linux == <<"l", "i", "n", "u", "x">>
s_windows == <<"w", "i", "n", "d", "o", "w", "s">>
s_deprecated == <<"d", "e", "p", "r", "e", "c", "a", "t", "e", "d">>

\* normalize_os_tag without the folding of "darwin" and "mac".
NormalizeNoFold(tag) == Lower(Strip(tag))

normalize_os_tag(tag) ==
  LET t == Lower(Strip(tag))
  IN IF t \in {s_darwin, s_mac} THEN s_macos ELSE t

(***************************************************************************)
(* _version_key and compare_versions                                       *)
(***************************************************************************)

\* int(p) for a string of decimal digits with optional surrounding whitespace.
RECURSIVE IntOfDigits(_, _)
IntOfDigits(p, acc) ==
  IF p = <<>> THEN acc
  ELSE IntOfDigits(Tail(p), 10 * acc + (Ord(Head(p)) - 48))

\* re.match(r"^\d+$", p): p is one or more digits.
AllDigits(p) == p # <<>> /\ \A i \in 1..Len(p) : p[i] \in Digits

\* re.findall(r"\d+", s) as integers: the maximal runs of digits of s.
RECURSIVE DigitRuns(_)
DigitRuns(s) ==
  LET t == LStripSet(s, {c \in {s[i] : i \in 1..Len(s)} : c \notin Digits})
      n == IF t = <<>> THEN 0
           ELSE CHOOSE k \in 1..Len(t) :
                  /\ \A i \in 1..k : t[i] \in Digits
                  /\ (k = Len(t) \/ t[k + 1] \notin Digits)
  IN IF t = <<>> THEN <<>>
     ELSE <<IntOfDigits(SubSeq(t, 1, n), 0)>> \o DigitRuns(DropTo(t, n + 1))

VersionSeparators == {".", "-", "_", "+"}

\* The parts with 1 for a part that is not a number.
VersionPartsOne(parts) ==
  [i \in 1..Len(parts) |->
     IF AllDigits(Strip(parts[i])) THEN IntOfDigits(Strip(parts[i]), 0) ELSE 1]

\* out.append(int(p) if m else 0) for every part.
VersionParts(parts) ==
  [i \in 1..Len(parts) |->
     IF AllDigits(Strip(parts[i])) THEN IntOfDigits(Strip(parts[i]), 0) ELSE 0]

\* The key with every leading "v" or "V" removed.
VersionKeyAllPrefixes(v) ==
  LET s == LStripSet(Strip(v), {"v", "V"})
      parts == SelectNonBlank(SplitOn(s, VersionSeparators))
      out == VersionParts(parts)
      nums == DigitRuns(s)
  IN IF out # <<>> THEN out
     ELSE IF nums # <<>> THEN nums ELSE <<0>>

_version_key(v) ==
  LET s0 == Strip(v)
      s == IF s0 # <<>> /\ Head(s0) \in {"v", "V"} THEN Tail(s0) ELSE s0
      parts == SelectNonBlank(SplitOn(s, VersionSeparators))
      out == VersionParts(parts)
      nums == DigitRuns(s)
  IN IF out # <<>> THEN out
     ELSE IF nums # <<>> THEN nums ELSE <<0>>

\* Padding with ones.
PadOnes(t, n) == [i \in 1..n |-> IF i <= Len(t) THEN t[i] ELSE 1]

\* t + (0,) * (n - len(t)).
PadZeros(t, n) == [i \in 1..n |-> IF i <= Len(t) THEN t[i] ELSE 0]

\* ta <= tb for ta < tb.
RECURSIVE TupleLessOrEqual(_, _)
TupleLessOrEqual(ta, tb) ==
  IF ta = <<>> THEN TRUE
  ELSE IF Head(ta) # Head(tb) THEN Head(ta) < Head(tb)
  ELSE TupleLessOrEqual(Tail(ta), Tail(tb))

\* Python's tuple comparison ta < tb for tuples of equal length.
RECURSIVE TupleLess(_, _)
TupleLess(ta, tb) ==
  IF ta = <<>> THEN FALSE
  ELSE IF Head(ta) # Head(tb) THEN Head(ta) < Head(tb)
  ELSE TupleLess(Tail(ta), Tail(tb))

\* The shorter of the two lengths.
Min(a, b) == IF a <= b THEN a ELSE b

\* max(len(ka), len(kb))
Max(a, b) == IF a >= b THEN a ELSE b

compare_versions(a, b) ==
  LET ka == _version_key(a)
      kb == _version_key(b)
      n == Max(Len(ka), Len(kb))
      ta == PadZeros(ka, n)
      tb == PadZeros(kb, n)
  IN IF TupleLess(ta, tb) THEN -1 ELSE IF TupleLess(tb, ta) THEN 1 ELSE 0

(***************************************************************************)
(* UpdateEntry and parse_descriptor                                        *)
(***************************************************************************)

\* Optional[...]'s None.
None == [none |-> TRUE]

UpdateEntry(version, os_tag, flags, download) ==
  [version |-> version, os_tag |-> os_tag, flags |-> flags, download |-> download]

\* The flags without .lower().
ParseFlagsKeepCase(field) ==
  LET toks == SelectNonBlank(SplitOnRuns(field, {","} \cup Whitespace))
  IN [i \in 1..Len(toks) |-> Strip(toks[i])]

\* tuple(f.strip().lower() for f in re.split(r"[,\s]+", field) if f.strip())
ParseFlags(field) ==
  LET toks == SelectNonBlank(SplitOnRuns(field, {","} \cup Whitespace))
  IN [i \in 1..Len(toks) |-> Lower(Strip(toks[i]))]

\* A loop body that keeps inline comments.
StripCommentNever(line) == line

\* The line with its inline comment removed: line.split("#", 1)[0].strip().
StripComment(line) ==
  LET i == FindFrom(line, {"#"}, 1)
  IN IF i = 0 THEN line ELSE Strip(SubSeq(line, 1, i - 1))

\* The loop body without the test of the version field (not ver).
ParseLineAnyVersion(raw, want) ==
  LET line0 == Strip(raw)
      line == StripComment(line0)
      fields == SplitOn(line, {"|"})
      parts == [i \in 1..Len(fields) |-> Strip(fields[i])]
      ver == parts[1]
      os_name == normalize_os_tag(parts[2])
      flags == IF Len(parts) = 3 THEN <<>> ELSE ParseFlags(parts[3])
      dl == IF Len(parts) = 3 THEN parts[3] ELSE parts[4]
  IN IF line0 = <<>> \/ Head(line0) = "#" THEN None
     ELSE IF line = <<>> THEN None
     ELSE IF Len(parts) < 3 THEN None
     ELSE IF os_name # want THEN None
     ELSE UpdateEntry(Strip(ver), os_name, flags, Strip(dl))

\* One pass of the loop body up to the construction of the entry: the UpdateEntry
\* of a raw line, or None where the loop says continue.
ParseLine(raw, want) ==
  LET line0 == Strip(raw)
      line == StripComment(line0)
      fields == SplitOn(line, {"|"})
      parts == [i \in 1..Len(fields) |-> Strip(fields[i])]
      ver == parts[1]
      os_name == normalize_os_tag(parts[2])
      flags == IF Len(parts) = 3 THEN <<>> ELSE ParseFlags(parts[3])
      dl == IF Len(parts) = 3 THEN parts[3] ELSE parts[4]
  IN IF line0 = <<>> \/ Head(line0) = "#" THEN None
     ELSE IF line = <<>> THEN None
     ELSE IF Len(parts) < 3 THEN None
     ELSE IF ver = <<>> \/ os_name # want THEN None
     ELSE UpdateEntry(Strip(ver), os_name, flags, Strip(dl))

\* The latest rule with >= for >: a later entry of equal version replaces latest.
UpdateLatestTies(latest, e) ==
  IF latest = None THEN e
  ELSE IF compare_versions(e.version, latest.version) >= 0 THEN e ELSE latest

\* if latest is None or compare_versions(e.version, latest.version) > 0: latest = e
UpdateLatest(latest, e) ==
  IF latest = None THEN e
  ELSE IF compare_versions(e.version, latest.version) > 0 THEN e ELSE latest

\* The current rule keeping the first match.
UpdateCurrentFirst(current, e, cur) ==
  IF current = None /\ compare_versions(e.version, cur) = 0 THEN e ELSE current

\* if compare_versions(e.version, cur) == 0: current = e
UpdateCurrent(current, e, cur) ==
  IF compare_versions(e.version, cur) = 0 THEN e ELSE current

\* The for loop over the lines, from line i on, with the two accumulators.
RECURSIVE ParseLoop(_, _, _, _, _, _)
ParseLoop(lines, i, latest, current, want, cur) ==
  IF i > Len(lines) THEN [latest |-> latest, current |-> current]
  ELSE LET e == ParseLine(lines[i], want)
       IN IF e = None THEN ParseLoop(lines, i + 1, latest, current, want, cur)
          ELSE ParseLoop(lines, i + 1, UpdateLatest(latest, e),
                         UpdateCurrent(current, e, cur), want, cur)

\* parse_descriptor(text, os_tag=..., current_version=...) -> (latest, current)
parse_descriptor(text, os_tag, current_version) ==
  ParseLoop(SplitLines(text), 1, None, None,
            normalize_os_tag(os_tag), Strip(current_version))

(***************************************************************************)
(* build_download_url                                                      *)
(***************************************************************************)

HexDigits == <<"0", "1", "2", "3", "4", "5", "6", "7", "8", "9", "A", "B", "C", "D", "E", "F">>

\* The characters urllib.parse.quote never escapes: letters, digits and "_.-~".
Unreserved ==
  {AsciiPrintable[i] : i \in (34..59) \cup (66..91)} \cup Digits \cup {"_", ".", "-", "~"}

\* quote with its default safe="/".
QuoteCharSlashSafe(c) ==
  IF c \in Unreserved \cup {"/"} THEN <<c>>
  ELSE <<"%", HexDigits[(Ord(c) \div 16) + 1], HexDigits[(Ord(c) % 16) + 1]>>

\* urllib.parse.quote(s, safe=""): every other character becomes %XX.
QuoteChar(c) ==
  IF c \in Unreserved THEN <<c>>
  ELSE <<"%", HexDigits[(Ord(c) \div 16) + 1], HexDigits[(Ord(c) % 16) + 1]>>

quote(s) == Concat([i \in 1..Len(s) |-> QuoteChar(s[i])])

s_http == <<"h", "t", "t", "p", ":", "/", "/">>
s_https == <<"h", "t", "t", "p", "s", ":", "/", "/">>
s_releases_download ==
  <<"/", "r", "e", "l", "e", "a", "s", "e", "s", "/", "d", "o", "w", "n", "l", "o", "a", "d", "/">>

\* ReProject.repo_url() of the one project of the model: https://github.com/o/r
repo_url ==
  <<"h", "t", "t", "p", "s", ":", "/", "/", "g", "i", "t", "h", "u", "b", ".", "c", "o", "m",
    "/", "o", "/", "r">>

\* The match without re.IGNORECASE.
IsAbsoluteUrlCaseSensitive(s) == StartsWith(s, s_http) \/ StartsWith(s, s_https)

\* re.match(r"^https?://", s, re.IGNORECASE)
IsAbsoluteUrl(s) == StartsWith(Lower(s), s_http) \/ StartsWith(Lower(s), s_https)

\* build_download_url without the test of the asset.
BuildUrlAnyAsset(entry) ==
  LET s == Strip(entry.download)
      spec == LStripSet(s, {"/"})
      i == FindFrom(spec, {"/"}, 1)
      tag0 == IF i # 0 THEN Strip(SubSeq(spec, 1, i - 1)) ELSE entry.version
      tag == IF tag0 = <<>> THEN entry.version ELSE tag0
      asset == IF i # 0 THEN Strip(DropTo(spec, i + 1)) ELSE Strip(spec)
  IN IF s = <<>> THEN <<>>
     ELSE IF IsAbsoluteUrl(s) THEN s
     ELSE repo_url \o s_releases_download \o quote(tag) \o <<"/">> \o quote(asset)

\* build_download_url removing one leading "/" only.
BuildUrlOneSlash(entry) ==
  LET s == Strip(entry.download)
      spec == IF s # <<>> /\ Head(s) = "/" THEN Tail(s) ELSE s
      i == FindFrom(spec, {"/"}, 1)
      tag0 == IF i # 0 THEN Strip(SubSeq(spec, 1, i - 1)) ELSE entry.version
      tag == IF tag0 = <<>> THEN entry.version ELSE tag0
      asset == IF i # 0 THEN Strip(DropTo(spec, i + 1)) ELSE Strip(spec)
  IN IF s = <<>> THEN <<>>
     ELSE IF IsAbsoluteUrl(s) THEN s
     ELSE IF asset = <<>> THEN <<>>
     ELSE repo_url \o s_releases_download \o quote(tag) \o <<"/">> \o quote(asset)

build_download_url(entry) ==
  LET s == Strip(entry.download)
      spec == LStripSet(s, {"/"})
      i == FindFrom(spec, {"/"}, 1)
      tag0 == IF i # 0 THEN Strip(SubSeq(spec, 1, i - 1)) ELSE entry.version
      tag == IF tag0 = <<>> THEN entry.version ELSE tag0
      asset == IF i # 0 THEN Strip(DropTo(spec, i + 1)) ELSE Strip(spec)
  IN IF s = <<>> THEN <<>>
     ELSE IF IsAbsoluteUrl(s) THEN s
     ELSE IF asset = <<>> THEN <<>>
     ELSE repo_url \o s_releases_download \o quote(tag) \o <<"/">> \o quote(asset)

(***************************************************************************)
(* Bounds and inputs                                                       *)
(***************************************************************************)

\* check_now is called at most MaxCalls times in a behaviour.
MaxCalls == 3

\* A descriptor of parse_descriptor's specification has at most MaxLines lines.
MaxLines == 2

\* compare_versions' specification: a has at most MaxVerLen characters, and a
\* version written from numbers has at most MaxParts of them.
MaxVerLen == 3
MaxParts == 3

\* build_download_url's specification: a download spec made of characters has at
\* most MaxDlLen of them.
MaxDlLen == 4

\* The running version of the model's project (ReProject.version).
s_1_2_0 == <<"1", ".", "2", ".", "0">>
s_1_3_0 == <<"1", ".", "3", ".", "0">>

\* Descriptor lines.
l_120 ==
  s_1_2_0 \o <<"|">> \o s_linux
    \o <<"|", "d", "l", "/", "a", "s", "s", "e", "t", ".", "t", "a", "r">>
l_130 ==
  s_1_3_0 \o <<"|">> \o s_linux
    \o <<"|", "d", "l", "/", "a", "s", "s", "e", "t", "2", ".", "t", "a", "r">>
l_120_dep == s_1_2_0 \o <<"|">> \o s_linux \o <<"|">> \o s_deprecated \o <<"|", "a">>
l_12_dep == <<"1", ".", "2", "|", "L", "i", "n", "u", "x", "|", "D", "e", "p", "r", "e", "c", "a", "t", "e", "d", "|", "c">>
l_130_dep == s_1_3_0 \o <<"|">> \o s_linux \o <<"|">> \o s_deprecated \o <<"|", "b">>
l_v13 == <<"v", "1", ".", "3", "|">> \o s_linux \o <<"|", "e">>
l_14 == <<"1", ".", "4", "|">> \o s_linux \o <<"|", "t", "/", "f">>
l_11 == <<"1", ".", "1", "|">> \o s_linux \o <<"|", "g">>
l_20_win == <<"2", ".", "0", "|">> \o s_windows \o <<"|", "w">>
l_13_mac == <<"1", ".", "3", "|">> \o s_darwin \o <<"|", "m">>
l_bad == <<"b", "a", "d", "|", "l", "i", "n", "e">>
l_comment == <<"#", " ", "c">>
l_blank == <<" ", "\t">>
l_nover == <<" ", "|">> \o s_linux \o <<"|", "n">>
l_mac_caps == <<"1", ".", "1", "|", " ", "M", "a", "c", " ", "|", "k">>
l_flags ==
  <<"1", ".", "5", "|">> \o s_linux
    \o <<"|", "B", "e", "t", "a", ",", " ", "D", "E", "P", "R", "E", "C", "A", "T", "E", "D",
         " ", ",", ",", "x", "|", "d", "/", "e">>
l_5f == <<"1", ".", "6", "|">> \o s_linux \o <<"|", "f", "|", "d", "|", "x">>
l_dl_dep == s_1_2_0 \o <<"|">> \o s_linux \o <<"|">> \o s_deprecated
l_noflags == <<"1", ".", "7", "|">> \o s_linux \o <<"|", " ", "|", "g">>
l_inline == l_130 \o <<" ", "#", " ", "t", "e", "x", "t">>
l_cut == <<"1", ".", "8", "|">> \o s_linux \o <<" ", "#", " ", "|", "x">>
l_hash_dl == <<"1", ".", "8", "|">> \o s_linux \o <<"|", "a", "#", "b", "|", "c">>

Text(lines) == Join(lines, <<"\n">>)

\* The descriptor texts the server may answer with.
Descriptors ==
  { Text(<<>>),
    Text(<<l_20_win, l_13_mac, l_bad>>),
    Text(<<l_120, l_130>>),
    Text(<<l_120_dep, l_130>>),
    Text(<<l_comment, l_120>>),
    Text(<<l_11>>),
    Text(<<l_12_dep>>),
    Text(<<l_14, l_120>>),
    Text(<<l_120_dep, l_120, l_v13>>),
    Text(<<l_130_dep, l_120>>) }

(***************************************************************************)
(* UpdateClient                                                            *)
(***************************************************************************)

VARIABLES
  os_tag,          \* self._os_tag
  descriptor_url,  \* self._descriptor_url
  version,         \* str(self._project.version)
  in_flight,       \* self._in_flight
  ignore_skip,     \* self._ignore_skip
  show_dialog,     \* self._show_dialog
  cb,              \* self._cb: the call whose callback is stored, NoCallback for None
  skip_version,    \* the settings value reupdater/skip_version
  recorded,        \* how often record_last_check has stored last_check_unix
  replies,         \* the QNetworkReply objects that are running, by the call that issued them
  timers,          \* the single-shot QTimers that are active, by the call that started them
  pc,              \* where _on_reply stands: "idle", "dialog" (box.exec()) or "emit" (_emit)
  handling,        \* the call whose reply _on_reply is handling, 0 when it is not running
  pending,         \* the result _on_reply holds while its dialog is open
  ncalls,          \* how many times check_now has been called
  callbacks,       \* the calls that supplied a callback
  accepted,        \* the calls that passed both guards of check_now
  done,            \* the accepted calls whose _on_reply has returned
  nrequests,       \* how many times self._mgr.get(req) has been called
  emitted,         \* per call: how many results `checked` has emitted for it
  cbcount,         \* per call: how many times the callback supplied with it has run
  last,            \* the result delivered last since the last accepted call, with the
                   \*   circumstances of its delivery
  in_text,         \* parse_descriptor's specification: the text
  in_os_tag,       \*   os_tag
  in_current,      \*   current_version
  out_parse,       \*   and the (latest, current) returned, NotRun before the call
  in_a,            \* compare_versions' specification: a
  in_b,            \*   b
  num_a,           \*   the numbers a was written from, <<>> when it was not
  num_b,           \*   the numbers b was written from
  out_cmp,         \*   and the int returned, in a tuple that is empty before the call
  in_entry,        \* build_download_url's specification: the entry
  out_url,         \*   and the str returned, in a tuple that is empty before the call
  in_c,            \* compare_versions' specification of three versions: the third
  sinks,           \* the sinks of the audio server, as pulse.sink_list() reports them
  default_sink,    \* server.default_sink_name
  rows,            \* the SinkRow widgets, in layout order: _model and _selected, and
                   \*   the Qt property "selected" that _sync_state keeps
  destroy_enabled, \* destroy_btn.isEnabled()
  default_enabled, \* default_btn.isEnabled()
  ui_log,          \* what the last handler of the window did: the selection it found,
                   \*   the backend calls it made, whether it refreshed
  existing_names,  \* suggest_resink_name's specification: the names of the sinks
  out_name,        \*   and the name returned, in a tuple that is empty before the call
  pw_status,       \* the backend's specification: how `pw-cli list-objects` ends
  pw_stdout,       \*   the text it prints
  in_node,         \*   the node_name asked for
  cmd_status,      \*   how the destroy / set-default command ends if it is run
  out_backend      \*   what the function did, in a tuple that is empty before the call

client_vars ==
  <<os_tag, descriptor_url, version, in_flight, ignore_skip, show_dialog, cb, skip_version,
    recorded, replies, timers, pc, handling, pending, ncalls, callbacks, accepted, done,
    nrequests, emitted, cbcount, last>>

parse_vars == <<in_text, in_os_tag, in_current, out_parse>>

compare_vars == <<in_a, in_b, num_a, num_b, out_cmp>>

url_vars == <<in_entry, out_url>>

\* The variables of the specifications of the pure functions.
pure_vars == <<parse_vars, compare_vars, url_vars, in_c>>

ui_vars == <<sinks, default_sink, rows, destroy_enabled, default_enabled, ui_log>>

suggest_vars == <<existing_names, out_name>>

backend_vars == <<pw_status, pw_stdout, in_node, cmd_status, out_backend>>

\* The variables of the sink manager.
app_vars == <<ui_vars, suggest_vars, backend_vars>>

\* Everything but the update client.
other_vars == <<pure_vars, app_vars>>

vars == <<client_vars, other_vars>>

NoCallback == 0

NotRun == [notrun |-> TRUE]

s_descriptor_url == repo_url \o <<"/", "v">>

UpdateResult(status, latest, download_url, message) ==
  [status |-> status, os_tag |-> os_tag, current_version |-> version,
   latest |-> latest, download_url |-> download_url, message |-> message]

\* What the model remembers of a delivery besides the result: the call it answers,
\* the callback that ran, why it was produced, what _on_reply had read, and the
\* flag and the checks in flight at that moment.
Delivery(call, cb_to, res, origin, net, text, skip, dialog) ==
  [call |-> call, cb_to |-> cb_to, res |-> res, origin |-> origin, net |-> net,
   text |-> text, ignore_skip |-> ignore_skip, show_dialog |-> show_dialog,
   skip |-> skip, dialog |-> dialog, in_flight |-> in_flight, running |-> accepted \ done]

NoDelivery == [none |-> TRUE]

\* _emit(res, cb): `checked` is emitted, then the callback runs if there is one.
\* `call` is the call the result answers, `to` the call that supplied the callback.
Emit(call, to, d) ==
  /\ emitted' = [emitted EXCEPT ![call] = @ + 1]
  /\ cbcount' = IF to = NoCallback THEN cbcount ELSE [cbcount EXCEPT ![to] = @ + 1]
  /\ last' = d

\* if not self._os_tag or not self._descriptor_url
MissingConfig == os_tag = <<>> \/ descriptor_url = <<>>

\* check_now without its reentrancy guard.
BusyNever == FALSE

\* A guard that looks at the outstanding request instead of the flag.
BusyWhileRequested == replies # {}

\* if self._in_flight
Busy == in_flight

\* An accepted call that sends its request a second time.
IssueTwice(k) == {k, 0 - k}

\* The requests an accepted call k issues: reply = self._mgr.get(req), once.
Issue(k) == {k}

\* cur_deprecated = bool(current and any(f == "deprecated" for f in current.flags))
cur_deprecated(current) ==
  current # None /\ \E i \in 1..Len(current.flags) : current.flags[i] = s_deprecated

Outcome(status, latest, download_url, message, dialog) ==
  [status |-> status, latest |-> latest, download_url |-> download_url,
   message |-> message, dialog |-> dialog]

\* The branches with the snooze test before the deprecation test.
DecideSnoozeFirst(latest, current, dl_url, ig, skip) ==
  IF compare_versions(latest.version, version) > 0
     /\ ~ig /\ skip # <<>> /\ skip = Strip(latest.version)
  THEN Outcome("no_update", latest, dl_url, "Update is snoozed.", "none")
  ELSE IF cur_deprecated(current)
  THEN Outcome("deprecated", latest, dl_url, "Current version is deprecated.", "mandatory")
  ELSE IF compare_versions(latest.version, version) <= 0
  THEN Outcome("no_update", latest, dl_url, "", "none")
  ELSE Outcome("update_available", latest, dl_url, "", "optional")

\* The branches with < 0 for <= 0 in the no_update test.
DecideStrictLess(latest, current, dl_url, ig, skip) ==
  IF cur_deprecated(current)
  THEN Outcome("deprecated", latest, dl_url, "Current version is deprecated.", "mandatory")
  ELSE IF compare_versions(latest.version, version) < 0
  THEN Outcome("no_update", latest, dl_url, "", "none")
  ELSE IF ~ig /\ skip # <<>> /\ skip = Strip(latest.version)
  THEN Outcome("no_update", latest, dl_url, "Update is snoozed.", "none")
  ELSE Outcome("update_available", latest, dl_url, "", "optional")

\* The branches with a snooze test that does not look at ignore_skip.
DecideSnoozeAlways(latest, current, dl_url, ig, skip) ==
  IF cur_deprecated(current)
  THEN Outcome("deprecated", latest, dl_url, "Current version is deprecated.", "mandatory")
  ELSE IF compare_versions(latest.version, version) <= 0
  THEN Outcome("no_update", latest, dl_url, "", "none")
  ELSE IF skip # <<>> /\ skip = Strip(latest.version)
  THEN Outcome("no_update", latest, dl_url, "Update is snoozed.", "none")
  ELSE Outcome("update_available", latest, dl_url, "", "optional")

\* The branches of _on_reply once latest is known not to be None, in the order of
\* the code: the result's fields and the dialog the branch shows when show_dialog
\* is set. ig is self._ignore_skip, skip is (self._get_skip() or "").strip().
DecideLatest(latest, current, dl_url, ig, skip) ==
  IF cur_deprecated(current)
  THEN Outcome("deprecated", latest, dl_url, "Current version is deprecated.", "mandatory")
  ELSE IF compare_versions(latest.version, version) <= 0
  THEN Outcome("no_update", latest, dl_url, "", "none")
  ELSE IF ~ig /\ skip # <<>> /\ skip = Strip(latest.version)
  THEN Outcome("no_update", latest, dl_url, "Update is snoozed.", "none")
  ELSE Outcome("update_available", latest, dl_url, "", "optional")

\* A missing entry reported as an error.
DecideParsedError(p, ig, skip) ==
  IF p.latest = None
  THEN Outcome("error", None, <<>>, "No entry for this OS in descriptor.", "none")
  ELSE DecideLatest(p.latest, p.current, build_download_url(p.latest), ig, skip)

\* if latest is None: no_entry; else dl_url = build_download_url(project, latest)
\* and the branches above. p is parse_descriptor's (latest, current).
DecideParsed(p, ig, skip) ==
  IF p.latest = None
  THEN Outcome("no_entry", None, <<>>, "No entry for this OS in descriptor.", "none")
  ELSE DecideLatest(p.latest, p.current, build_download_url(p.latest), ig, skip)

\* _on_reply's decision on the text of a reply without error.
Decide(text, ig, skip) == DecideParsed(parse_descriptor(text, os_tag, version), ig, skip)

\* What _on_reply computes before any dialog: the error result of a failed reply,
\* or the decision on the text of a successful one.
ReplyOutcome(net, text) ==
  IF net # "ok"
  THEN Outcome("error", None, <<>>,
               IF net = "abort" THEN "Operation canceled" ELSE "Connection refused", "none")
  ELSE Decide(text, ignore_skip, Strip(skip_version))

\* The stored callback after _finish has taken it: self._cb = None.
FinishCb == NoCallback

\* An _on_reply without its finally clause.
FinallyKeepsFlag == in_flight

\* The in-flight flag after _on_reply's finally clause.
FinallyInFlight == FALSE

\* A _finish that hands the result to the callback of the latest caller.
FinishToLatestCaller(call, d) ==
  /\ cb' = FinishCb
  /\ Emit(call, IF ncalls \in callbacks THEN ncalls ELSE cb,
          [d EXCEPT !.cb_to = IF ncalls \in callbacks THEN ncalls ELSE cb])

\* _finish(res): the stored callback is taken and cleared, then _emit(res, cb).
Finish(call, d) ==
  /\ cb' = FinishCb
  /\ Emit(call, cb, [d EXCEPT !.cb_to = cb])

\* check_now(ignore_skip=ig, show_dialog=sd, callback=...): the k-th call, whose
\* callback (if it supplies one) is named k.
CheckNow(ig, sd, withCb) ==
  LET k == ncalls + 1
      callback == IF withCb THEN k ELSE NoCallback
      reject(message, origin) ==
        /\ Emit(k, callback,
                Delivery(k, callback, UpdateResult("error", None, <<>>, message),
                         origin, "none", <<>>, <<>>, "none"))
        /\ UNCHANGED <<in_flight, ignore_skip, show_dialog, cb, replies, timers,
                       accepted, nrequests>>
  IN /\ ncalls < MaxCalls
     /\ ncalls' = k
     /\ callbacks' = IF withCb THEN callbacks \cup {k} ELSE callbacks
     /\ IF MissingConfig THEN reject("Missing os_tag or descriptor_url.", "config")
        ELSE IF Busy THEN reject("Update check already running.", "busy")
        ELSE /\ in_flight' = TRUE
             /\ ignore_skip' = ig
             /\ show_dialog' = sd
             /\ cb' = callback
             /\ replies' = replies \cup Issue(k)
             /\ nrequests' = nrequests + Cardinality(Issue(k))
             /\ timers' = timers \cup {k}
             /\ accepted' = accepted \cup {k}
             /\ last' = NoDelivery
             /\ UNCHANGED <<emitted, cbcount>>
     /\ UNCHANGED <<os_tag, descriptor_url, version, skip_version, recorded, pc, handling,
                    pending, done, other_vars>>

\* _on_reply from the point where its result d is known: it opens the dialog of
\* its branch, or goes on to _finish when the branch shows none.
Handle(r, d) ==
  /\ replies' = replies \ {r}
  /\ recorded' = recorded + 1
  /\ handling' = r
  /\ IF d.dialog # "none"
     THEN /\ pc' = "dialog"
          /\ pending' = d
          /\ UNCHANGED <<cb, emitted, cbcount, last>>
     ELSE /\ pc' = "emit"
          /\ pending' = NoDelivery
          /\ Finish(r, d)

\* The delivery _on_reply prepares from the outcome o of its branch.
ReplyDelivery(r, net, text, o) ==
  Delivery(r, NoCallback, UpdateResult(o.status, o.latest, o.download_url, o.message),
           "reply", net, text, Strip(skip_version),
           IF show_dialog THEN o.dialog ELSE "none")

\* _on_reply(reply) up to its dialog, or up to _emit when it shows none.
OnReply(r, net, text) == Handle(r, ReplyDelivery(r, net, text, ReplyOutcome(net, text)))

\* The manager's finished signal for a running reply: the fetch succeeded with some
\* descriptor text, or failed with a network error.
ReplyFinished(r, net, text) ==
  /\ pc = "idle"
  /\ r \in replies
  /\ OnReply(r, net, text)
  /\ UNCHANGED <<os_tag, descriptor_url, version, in_flight, ignore_skip, show_dialog,
                 skip_version, timers, ncalls, callbacks, accepted, done, nrequests,
                 other_vars>>

\* An on_timeout that never finds the reply running.
IsRunningNever(r) == FALSE

\* reply.isRunning(): the reply has not finished.
IsRunning(r) == r \in replies

\* on_timeout(): the single-shot timer of call r fires; a reply that is still
\* running is aborted, which finishes it with an error at once.
Timeout(r) ==
  /\ r \in timers
  /\ timers' = timers \ {r}
  /\ IF IsRunning(r)
     THEN /\ pc = "idle"
          /\ OnReply(r, "abort", <<>>)
     ELSE UNCHANGED <<replies, recorded, handling, pc, pending, cb, emitted, cbcount, last>>
  /\ UNCHANGED <<os_tag, descriptor_url, version, in_flight, ignore_skip, show_dialog,
                 skip_version, ncalls, callbacks, accepted, done, nrequests, other_vars>>

\* box.exec() returns: the user has answered the dialog, with the snooze box of
\* the optional dialog ticked or not; then _finish(res).
DialogClosed(snooze) ==
  /\ pc = "dialog"
  /\ skip_version' = IF pending.dialog = "optional" /\ snooze
                     THEN Strip(pending.res.latest.version) ELSE skip_version
  /\ Finish(handling, pending)
  /\ pc' = "emit"
  /\ pending' = NoDelivery
  /\ UNCHANGED <<os_tag, descriptor_url, version, in_flight, ignore_skip, show_dialog,
                 recorded, replies, timers, handling, ncalls, callbacks, accepted, done,
                 nrequests, other_vars>>

\* _on_reply returns from _emit through its finally clause; then the reply's
\* finished signal runs cleanup(), which stops the timer.
OnReplyReturn ==
  /\ pc = "emit"
  /\ in_flight' = FinallyInFlight
  /\ pc' = "idle"
  /\ done' = done \cup {handling}
  /\ handling' = 0
  /\ timers' = timers \ {handling}
  /\ UNCHANGED <<os_tag, descriptor_url, version, ignore_skip, show_dialog, cb, skip_version,
                 recorded, replies, pending, ncalls, callbacks, accepted, nrequests,
                 emitted, cbcount, last, other_vars>>

\* UpdateClient.__init__: nothing in flight, no callback stored.
ClientInit ==
  /\ version = s_1_2_0
  /\ in_flight = FALSE
  /\ ignore_skip = FALSE
  /\ show_dialog = FALSE
  /\ cb = NoCallback
  /\ skip_version = <<>>
  /\ recorded = 0
  /\ replies = {}
  /\ timers = {}
  /\ pc = "idle"
  /\ handling = 0
  /\ pending = NoDelivery
  /\ ncalls = 0
  /\ callbacks = {}
  /\ accepted = {}
  /\ done = {}
  /\ nrequests = 0
  /\ emitted = [k \in 1..MaxCalls |-> 0]
  /\ cbcount = [k \in 1..MaxCalls |-> 0]
  /\ last = NoDelivery

\* The variables of a pure function's specification while another one runs.
ParseIdle == in_text = <<>> /\ in_os_tag = <<>> /\ in_current = <<>> /\ out_parse = NotRun

CompareIdle ==
  /\ in_a = <<>> /\ in_b = <<>> /\ num_a = <<>> /\ num_b = <<>> /\ out_cmp = <<>>
  /\ in_c = <<>>

UrlIdle == in_entry = None /\ out_url = <<>>

\* The sink manager's variables while the updater's specifications run.
AppIdle ==
  /\ sinks = {} /\ default_sink = <<>> /\ rows = <<>>
  /\ destroy_enabled = TRUE /\ default_enabled = TRUE /\ ui_log = None
  /\ existing_names = {} /\ out_name = <<>>
  /\ pw_status = "ok" /\ pw_stdout = <<>> /\ in_node = <<>> /\ cmd_status = "ok"
  /\ out_backend = <<>>

\* A client with or without an os_tag and a descriptor URL.
Init ==
  /\ os_tag \in {s_linux, <<>>}
  /\ descriptor_url \in {s_descriptor_url, <<>>}
  /\ ClientInit
  /\ ParseIdle
  /\ CompareIdle
  /\ UrlIdle
  /\ AppIdle

Next ==
  \/ \E ig \in BOOLEAN, sd \in BOOLEAN, withCb \in BOOLEAN : CheckNow(ig, sd, withCb)
  \/ \E r \in replies, text \in Descriptors : ReplyFinished(r, "ok", text)
  \/ \E r \in replies : ReplyFinished(r, "error", <<>>)
  \/ \E r \in timers : Timeout(r)
  \/ \E snooze \in BOOLEAN : DialogClosed(snooze)
  \/ OnReplyReturn

Spec == Init /\ [][Next]_vars

\* The event loop fires a started timer, and _on_reply, once in _emit, runs on to
\* its end. The network may never answer and the user may never answer a dialog.
FairSpec ==
  /\ Spec
  /\ WF_vars(\E r \in timers : Timeout(r))
  /\ WF_vars(OnReplyReturn)

(***************************************************************************)
(* Properties                                                              *)
(***************************************************************************)

\* Only one handler runs at a time: while _on_reply is in its dialog or in _emit
\* no other reply is running, so the manager cannot call it again.
HandlerExclusive == pc # "idle" => replies = {}

\* An accepted check whose _on_reply has not returned yet.
CheckInFlight == accepted \ done # {}

\* A step that is a call of check_now.
IsCall == ncalls' = ncalls + 1

\* The last delivery is the result of a call that check_now refused.
Rejected(message) ==
  /\ last # NoDelivery
  /\ last.call = ncalls
  /\ last.call \notin accepted
  /\ last.res.status = "error"
  /\ last.res.message = message
  /\ last.res.latest = None
  /\ last.cb_to = (IF ncalls \in callbacks THEN ncalls ELSE NoCallback)

\* C1: a check_now called while an accepted check is in flight starts no request,
\* neither aborts nor replaces the running one (replies, timers and the request
\* count are unchanged) and hands its own caller the error "Update check already
\* running."; at most one request is outstanding at any time.
C1_ReentrancyGuard ==
  /\ [](Cardinality(replies) <= 1)
  /\ [][(CheckInFlight /\ IsCall) =>
          /\ replies' = replies
          /\ timers' = timers
          /\ nrequests' = nrequests
          /\ Rejected("Update check already running.")']_vars

\* A call has been refused while the request of an accepted check is outstanding.
C1_Witness ==
  /\ replies # {}
  /\ last # NoDelivery
  /\ last.origin = "busy"

LinePool == {l_120, l_130, l_v13, l_130_dep, l_12_dep, l_14, l_20_win, l_bad}

\* The texts of at most n lines of the pool.
TextsUpTo(n) == {Text(ls) : ls \in UNION {[1..m -> LinePool] : m \in 0..n}}

ParseInit ==
  /\ os_tag = s_linux
  /\ descriptor_url = s_descriptor_url
  /\ ClientInit
  /\ in_text \in TextsUpTo(MaxLines)
  /\ in_os_tag \in {s_linux, s_windows}
  /\ in_current \in {s_1_2_0, <<"1", ".", "3">>}
  /\ out_parse = NotRun
  /\ CompareIdle
  /\ UrlIdle
  /\ AppIdle

\* latest, current = parse_descriptor(text, os_tag=..., current_version=...)
RunParse ==
  /\ out_parse = NotRun
  /\ out_parse' = parse_descriptor(in_text, in_os_tag, in_current)
  /\ UNCHANGED <<client_vars, in_text, in_os_tag, in_current, compare_vars, url_vars, in_c, app_vars>>

ParseNext == RunParse

ParseSpec == ParseInit /\ [][ParseNext]_vars

\* The user answers an open dialog.
DialogAnswered == WF_vars(\E snooze \in BOOLEAN : DialogClosed(snooze))

\* C3 as stated: with the timer and reply completion fair, every accepted check
\* terminates and the in-flight flag becomes false again.
C3_Original == in_flight ~> ~in_flight

\* C3, amended: a reply still running when the timer fires is aborted and its check
\* ends with status "error"; with the timer and reply completion fair, and the
\* user answering any dialog the check opens, every accepted check terminates and
\* the flag becomes false again, after which check_now is accepted.
C3_TimeoutLiveness ==
  /\ [][(\E r \in replies : r \in timers /\ timers' = timers \ {r}) =>
          /\ replies' = {}
          /\ last'.net = "abort"
          /\ last'.res.status = "error"]_vars
  /\ [][(~in_flight /\ ~MissingConfig /\ IsCall) => (in_flight' /\ ncalls' \in accepted')]_vars
  /\ (DialogAnswered => (in_flight ~> ~in_flight))

\* A check that asked for dialogs has ended by the timer's abort, and the flag is
\* false again.
C3_Witness ==
  /\ last # NoDelivery
  /\ last.net = "abort"
  /\ last.res.status = "error"
  /\ last.show_dialog
  /\ last.call \in done
  /\ ~in_flight

\* C4: the number of GET requests issued equals the number of accepted check_now
\* calls, and a request is issued only by a step that is a call of check_now: no
\* completion, with whatever status, issues one.
C4_NoRetries ==
  /\ [](nrequests = Cardinality(accepted))
  /\ [][(nrequests' # nrequests \/ replies' \ replies # {}) =>
          (IsCall /\ nrequests' = nrequests + 1)]_vars

\* A check has ended with status "error" and nothing is outstanding afterwards.
C4_Witness ==
  /\ last # NoDelivery
  /\ last.origin = "reply"
  /\ last.res.status = "error"
  /\ pc = "idle"
  /\ replies = {}
  /\ nrequests = 1

\* The last delivery is the result of a successful fetch.
ReplyOk == last # NoDelivery /\ last.call \in accepted /\ last.net = "ok"

\* What parse_descriptor returns for the text of the last delivery.
Parsed == parse_descriptor(last.text, os_tag, version)

\* The entry exists and carries the flag.
HasFlag(e, flag) == e # None /\ flag \in {e.flags[i] : i \in 1..Len(e.flags)}

\* C5: when the fetched descriptor's entry for the running version carries the
\* flag "deprecated", the status is "deprecated", whatever the stored skip
\* version, ignore_skip and the order of latest and running version are.
C5_DeprecationMandatory ==
  (ReplyOk /\ HasFlag(Parsed.current, s_deprecated)) => last.res.status = "deprecated"

\* A check ended "deprecated" although its latest version was snoozed and
\* ignore_skip was false.
C5_Witness ==
  /\ ReplyOk
  /\ last.res.status = "deprecated"
  /\ ~last.ignore_skip
  /\ last.skip # <<>>
  /\ last.skip = Parsed.latest.version

\* C6: with a latest entry, a running version that is not deprecated and no snooze
\* in play (ignore_skip, or no stored skip version), the status is "no_update"
\* exactly when compare(latest.version, running) <= 0 and "update_available"
\* exactly when it is > 0, and the result carries latest and its download URL.
C6_UpdateDecision ==
  (ReplyOk /\ (last.ignore_skip \/ last.skip = <<>>)) =>
    LET p == Parsed
        c == compare_versions(p.latest.version, version)
    IN (p.latest # None /\ ~HasFlag(p.current, s_deprecated)) =>
         /\ last.res.status = "no_update" <=> c <= 0
         /\ last.res.status = "update_available" <=> c > 0
         /\ last.res.latest = p.latest
         /\ last.res.download_url = build_download_url(p.latest)

\* A check ended "no_update" because latest equals the running version, with
\* ignore_skip set.
C6_Witness ==
  /\ ReplyOk
  /\ Parsed.latest # None
  /\ ~HasFlag(Parsed.current, s_deprecated)
  /\ last.ignore_skip
  /\ compare_versions(Parsed.latest.version, version) = 0
  /\ last.res.status = "no_update"
  /\ last.res.download_url # <<>>

\* The three cases of the snooze rule for a delivery made with skip version V
\* stored, latest being the latest entry of the fetched descriptor.
SnoozeRule(latest) ==
  /\ (~last.ignore_skip /\ latest.version = last.skip)
       => (last.res.status = "no_update" /\ last.dialog = "none")
  /\ (latest.version # last.skip /\ compare_versions(latest.version, version) > 0)
       => last.res.status = "update_available"
  /\ (last.ignore_skip /\ latest.version = last.skip)
       => last.res.status = "update_available"

\* C7 as stated: once version V is snoozed, a check with ignore_skip false whose
\* latest is V ends "no_update" without a dialog, a check whose latest is another
\* version newer than the running one ends "update_available", and so does a
\* check with ignore_skip true whose latest is V.
C7_Original ==
  (ReplyOk /\ last.skip # <<>>) =>
    LET p == Parsed IN p.latest # None => SnoozeRule(p.latest)

\* C7, amended: the same, for the checks in which the running version's entry is
\* not flagged deprecated.
C7_SnoozeOneVersion ==
  (ReplyOk /\ last.skip # <<>>) =>
    LET p == Parsed
    IN (p.latest # None /\ ~HasFlag(p.current, s_deprecated)) => SnoozeRule(p.latest)

\* A check ended "no_update" because its latest version is the snoozed one.
C7_Witness ==
  /\ ReplyOk
  /\ last.skip # <<>>
  /\ ~last.ignore_skip
  /\ last.show_dialog
  /\ Parsed.latest # None
  /\ Parsed.latest.version = last.skip
  /\ last.res.status = "no_update"
  /\ last.res.message = "Update is snoozed."

\* The text has a line that parse_descriptor accepts for the client's OS.
HasValidRecord(text) ==
  LET lines == SplitLines(text)
      want == normalize_os_tag(os_tag)
  IN \E i \in 1..Len(lines) : ParseLine(lines[i], want) # None

Statuses == {"error", "no_entry", "no_update", "update_available", "deprecated"}

\* C8: a fetched descriptor without a valid record for the client's OS gives
\* "no_entry" with latest None; "error" is given only when the configuration is
\* missing, to a call refused because a check is in flight, or for a reply with a
\* network error; a client with missing configuration never sets the flag nor
\* issues a request; every status is one of the five.
C8_ErrorVersusNoEntry ==
  /\ (ReplyOk /\ ~HasValidRecord(last.text))
       => (last.res.status = "no_entry" /\ last.res.latest = None)
  /\ (last # NoDelivery /\ last.res.status = "error")
       => \/ MissingConfig
          \/ last.call \notin accepted /\ last.running # {}
          \/ last.call \in accepted /\ last.net # "ok"
  /\ last # NoDelivery => last.res.status \in Statuses
  /\ MissingConfig => (~in_flight /\ nrequests = 0 /\ replies = {} /\ accepted = {})

\* A check ended "no_entry" on a descriptor that has records, none for this OS.
C8_Witness ==
  /\ ReplyOk
  /\ last.text # <<>>
  /\ last.res.status = "no_entry"

\* The entries of the lines that parse_descriptor accepts for the OS, in text order.
RECURSIVE ValidEntries(_, _)
ValidEntries(lines, want) ==
  IF lines = <<>> THEN <<>>
  ELSE IF ParseLine(Head(lines), want) = None THEN ValidEntries(Tail(lines), want)
  ELSE <<ParseLine(Head(lines), want)>> \o ValidEntries(Tail(lines), want)

\* The valid entries of the parsed text for the requested OS.
InEntries == ValidEntries(SplitLines(in_text), normalize_os_tag(in_os_tag))

\* The positions of the entries whose version compares equal to v.
EqualTo(es, v) == {i \in 1..Len(es) : compare_versions(es[i].version, v) = 0}

Least(S) == CHOOSE i \in S : \A j \in S : i <= j

Greatest(S) == CHOOSE i \in S : \A j \in S : i >= j

\* C9: when a valid entry matches the OS, no matching entry has a version greater
\* than latest's, and latest is the first in text order of the entries whose
\* version compares equal to its own.
C9_LatestFirstMaximum ==
  (out_parse # NotRun /\ InEntries # <<>>) =>
     /\ out_parse.latest # None
     /\ \A i \in 1..Len(InEntries) :
          compare_versions(InEntries[i].version, out_parse.latest.version) <= 0
     /\ out_parse.latest = InEntries[Least(EqualTo(InEntries, out_parse.latest.version))]

\* Two different entries of equal, greatest version were parsed, and latest is the
\* first of them.
C9_Witness ==
  /\ out_parse # NotRun
  /\ Len(InEntries) = 2
  /\ InEntries[1] # InEntries[2]
  /\ compare_versions(InEntries[1].version, InEntries[2].version) = 0
  /\ out_parse.latest = InEntries[1]

\* C10: current is the last entry in text order, among the valid entries for the
\* OS, whose version compares equal to current_version, and None when there is
\* none; for the text "1.2.0|linux|dl/asset.tar\n1.3.0|linux|dl/asset2.tar",
\* linux and 1.2.0, latest.version is 1.3.0 and current.version is 1.2.0.
C10_CurrentLastMatch ==
  out_parse # NotRun =>
     /\ out_parse.current =
          (IF EqualTo(InEntries, in_current) = {} THEN None
           ELSE InEntries[Greatest(EqualTo(InEntries, in_current))])
     /\ (in_text = Text(<<l_120, l_130>>) /\ in_os_tag = s_linux /\ in_current = s_1_2_0)
          => /\ out_parse.latest.version = s_1_3_0
             /\ out_parse.current.version = s_1_2_0

\* Two different entries match current_version, and current is the second.
C10_Witness ==
  /\ out_parse # NotRun
  /\ Len(InEntries) = 2
  /\ InEntries[1] # InEntries[2]
  /\ EqualTo(InEntries, in_current) = {1, 2}
  /\ out_parse.current = InEntries[2]

(***************************************************************************)
(* parse_descriptor line by line                                           *)
(***************************************************************************)

\* The lines of this specification: records in the 3- and the 4-field form, for
\* several OSes, malformed lines, blank lines and comments.
RecordPool ==
  {l_120, l_130, l_20_win, l_bad, l_nover, l_13_mac, l_mac_caps, l_flags, l_5f, l_dl_dep,
   l_noflags, l_comment, l_blank, l_inline, l_cut, l_hash_dl}

\* The texts of at most n lines of a pool.
TextsOf(pool, n) == {Text(ls) : ls \in UNION {[1..m -> pool] : m \in 0..n}}

s_Darwin == <<" ", "D", "a", "r", "w", "i", "n">>

LineInit ==
  /\ os_tag = s_linux
  /\ descriptor_url = s_descriptor_url
  /\ ClientInit
  /\ in_text \in TextsOf(RecordPool, MaxLines)
  /\ in_os_tag \in {s_linux, s_macos, s_Darwin}
  /\ in_current = s_1_2_0
  /\ out_parse = NotRun
  /\ CompareIdle
  /\ UrlIdle
  /\ AppIdle

LineSpec == LineInit /\ [][ParseNext]_vars

\* The lines of the parsed text.
InLines == SplitLines(in_text)

\* parse_descriptor on a text made of the given lines, for the same OS and version.
Reparse(lines) == parse_descriptor(Text(lines), in_os_tag, in_current)

\* The pipe-delimited fields of a line as it stands.
RawFields(raw) == SplitOn(raw, {"|"})

\* A line with fewer than 3 pipe-delimited fields or an empty version field.
Malformed(raw) == Len(RawFields(raw)) < 3 \/ Strip(RawFields(raw)[1]) = <<>>

WellFormed(raw) == ~Malformed(raw)

\* The entries a result may carry.
Carried == {None} \cup {InEntries[i] : i \in 1..Len(InEntries)}

CutAtHash(raw) ==
  LET i == FindFrom(raw, {"#"}, 1) IN IF i = 0 THEN raw ELSE SubSeq(raw, 1, i - 1)

\* The trimmed fields of a line without its comment.
Fields(raw) ==
  LET f == SplitOn(CutAtHash(raw), {"|"}) IN [i \in 1..Len(f) |-> Strip(f[i])]

\* A line that is a record: at least 3 fields and a version.
Record(raw) == Len(Fields(raw)) >= 3 /\ Fields(raw)[1] # <<>>

\* An OS tag trimmed, lower-cased, with "darwin" and "mac" folded to "macos".
OsKey(tag) ==
  LET t == Lower(Strip(tag)) IN IF t = s_darwin \/ t = s_mac THEN s_macos ELSE t

\* A record for the OS of the tag.
ForOs(raw, tag) == Record(raw) /\ OsKey(Fields(raw)[2]) = OsKey(tag)

\* A line whose OS field names another OS than the requested one.
OtherOs(raw) == Len(Fields(raw)) >= 2 /\ OsKey(Fields(raw)[2]) # OsKey(in_os_tag)

NotOtherOs(raw) == ~OtherOs(raw)

\* C12: the result is the one for the text without the lines of other OSes (OS
\* field and os_tag both trimmed, lower-cased and folded); latest is None exactly
\* when no record is for the requested OS; the entries returned carry the
\* normalized requested OS.
C12_OsFiltering ==
  out_parse # NotRun =>
    /\ out_parse = Reparse(SelectSeq(InLines, NotOtherOs))
    /\ out_parse.latest = None <=> ~\E i \in 1..Len(InLines) : ForOs(InLines[i], in_os_tag)
    /\ out_parse.latest # None => out_parse.latest.os_tag = OsKey(in_os_tag)
    /\ out_parse.current # None => out_parse.current.os_tag = OsKey(in_os_tag)

\* os_tag is given as " Darwin", latest comes from a line for " Mac ", and a
\* record of another OS with a greater version is in the text.
C12_Witness ==
  /\ out_parse # NotRun
  /\ in_os_tag = s_Darwin
  /\ out_parse.latest # None
  /\ out_parse.latest.os_tag = s_macos
  /\ \E i \in 1..Len(InLines) :
       /\ Record(InLines[i])
       /\ OtherOs(InLines[i])
       /\ compare_versions(Fields(InLines[i])[1], out_parse.latest.version) > 0

\* The tokens of a flags field: maximal runs of characters other than commas and
\* whitespace, lower-cased. cur is the token being read, acc the tokens read.
RECURSIVE FlagTokens(_, _, _)
FlagTokens(field, cur, acc) ==
  LET read == IF cur = <<>> THEN acc ELSE Append(acc, cur)
  IN IF field = <<>> THEN read
     ELSE IF Head(field) \in {","} \cup Whitespace THEN FlagTokens(Tail(field), <<>>, read)
     ELSE FlagTokens(Tail(field), Append(cur, LowerChar(Head(field))), acc)

\* The entry of a record: flags and download by the number of its fields.
ExpectedEntry(raw) ==
  LET f == Fields(raw)
  IN UpdateEntry(f[1], OsKey(f[2]),
                 IF Len(f) = 3 THEN <<>> ELSE FlagTokens(f[3], <<>>, <<>>),
                 IF Len(f) = 3 THEN f[3] ELSE f[4])

\* The entries of the records for the requested OS.
ExpectedEntries ==
  {ExpectedEntry(InLines[i]) : i \in {j \in 1..Len(InLines) : ForOs(InLines[j], in_os_tag)}}

\* C13: the entries returned are entries of records of the text, where a record of
\* 3 fields has no flags and field 3 as download, and a record of 4 or more fields
\* has the lower-cased comma/whitespace tokens of field 3 as flags and field 4 as
\* download; "deprecated" as field 3 of a 3-field record is a download, not a flag.
C13_FlagsAndDownload ==
  out_parse # NotRun =>
    /\ out_parse.latest # None => out_parse.latest \in ExpectedEntries
    /\ out_parse.current # None => out_parse.current \in ExpectedEntries
    /\ (in_text = l_dl_dep /\ in_os_tag = s_linux) =>
         /\ out_parse.current # None
         /\ ~HasFlag(out_parse.current, s_deprecated)
         /\ out_parse.current.download = s_deprecated

\* latest has three flags, "deprecated" among them, read from a field that spells
\* it in capitals between commas and blanks.
C13_Witness ==
  /\ out_parse # NotRun
  /\ out_parse.latest # None
  /\ Len(out_parse.latest.flags) = 3
  /\ HasFlag(out_parse.latest, s_deprecated)
  /\ \A i \in 1..Len(InLines) : s_deprecated \notin {Fields(InLines[i])[j] : j \in 1..Len(Fields(InLines[i]))}

\* A blank line, or a line whose first non-blank character is '#'.
BlankOrComment(raw) == Strip(raw) = <<>> \/ Head(Strip(raw)) = "#"

NotBlankOrComment(raw) == ~BlankOrComment(raw)

s_comment_suffix == <<" ", "#", " ", "t", "e", "x", "t">>

\* C14: the result is the one for the text without its blank and comment lines,
\* for the text with every line cut at its first '#', for the text with " # text"
\* appended to every line, and for the text with a comment line added before
\* every line and at the end.
C14_Comments ==
  out_parse # NotRun =>
    /\ out_parse = Reparse(SelectSeq(InLines, NotBlankOrComment))
    /\ out_parse = Reparse([i \in 1..Len(InLines) |-> CutAtHash(InLines[i])])
    /\ out_parse = Reparse([i \in 1..Len(InLines) |-> InLines[i] \o s_comment_suffix])
    /\ out_parse = Reparse(Concat([i \in 1..Len(InLines) |-> <<l_comment, InLines[i]>>])
                           \o <<l_comment>>)

\* A comment line and a record with an inline comment were parsed into an entry.
C14_Witness ==
  /\ out_parse # NotRun
  /\ \E i \in 1..Len(InLines) : BlankOrComment(InLines[i])
  /\ \E i \in 1..Len(InLines) :
       /\ ~BlankOrComment(InLines[i])
       /\ FindFrom(InLines[i], {"#"}, 1) # 0
       /\ Record(InLines[i])
  /\ out_parse.latest # None

(***************************************************************************)
(* compare_versions on its own                                             *)
(***************************************************************************)

\* The characters a is made of: digits, separators, the prefix, a letter, a blank.
VerAlphabet == {"0", "1", "2", ".", "-", "v", "a", " "}

StringsUpTo(n) == UNION {[1..m -> VerAlphabet] : m \in 0..n}

s_1_0 == <<"1", ".", "0">>
s_1_10_0 == <<"1", ".", "1", "0", ".", "0">>
s_1_0_beta == <<"1", ".", "0", "-", "b", "e", "t", "a">>
s_v1_0 == <<"v", "1", ".", "0">>

\* The versions b is drawn from.
VersionPool ==
  { <<>>, <<"1">>, <<"2">>, s_1_0, s_1_2_0, s_1_10_0, s_1_0_beta, s_v1_0,
    <<"1", "_", "2", "+", "3">>, <<"r", "c", "2">>, <<"1", "a">>, <<".", ".">>,
    <<"V", "2">>, <<"0", ".", "2">> }

\* The numbers a version is written from.
NumPool == {0, 1, 2, 10}

NumSeqs(n) == UNION {[1..m -> NumPool] : m \in 1..n}

\* str(n) for n >= 0.
RECURSIVE Decimal(_)
Decimal(n) ==
  IF n < 10 THEN <<Chr(48 + n)>> ELSE Decimal(n \div 10) \o <<Chr(48 + (n % 10))>>

\* The numbers written in decimal with the separator between them.
Written(nums, sep) == Join([i \in 1..Len(nums) |-> Decimal(nums[i])], <<sep>>)

\* Any short string against a version of the pool.
CompareInit ==
  /\ os_tag = s_linux
  /\ descriptor_url = s_descriptor_url
  /\ ClientInit
  /\ ParseIdle
  /\ UrlIdle
  /\ AppIdle
  /\ in_a \in StringsUpTo(MaxVerLen)
  /\ in_b \in VersionPool
  /\ num_a = <<>>
  /\ num_b = <<>>
  /\ in_c = <<>>
  /\ out_cmp = <<>>

\* Two versions written from numbers, a with any of the separators.
NumericInit ==
  /\ os_tag = s_linux
  /\ descriptor_url = s_descriptor_url
  /\ ClientInit
  /\ ParseIdle
  /\ UrlIdle
  /\ AppIdle
  /\ num_a \in NumSeqs(MaxParts)
  /\ num_b \in NumSeqs(MaxParts)
  /\ \E sep \in VersionSeparators : in_a = Written(num_a, sep)
  /\ in_b = Written(num_b, ".")
  /\ in_c = <<>>
  /\ out_cmp = <<>>

\* compare_versions(a, b)
RunCompare ==
  /\ out_cmp = <<>>
  /\ out_cmp' = <<compare_versions(in_a, in_b)>>
  /\ UNCHANGED <<client_vars, parse_vars, url_vars, in_a, in_b, num_a, num_b, in_c, app_vars>>

CompareNext == RunCompare

CompareSpec == CompareInit /\ [][CompareNext]_vars

NumericSpec == NumericInit /\ [][CompareNext]_vars

LexSign(sa, sb) ==
  LET at(q, i) == IF i <= Len(q) THEN q[i] ELSE 0
      D == {i \in 1..Max(Len(sa), Len(sb)) : at(sa, i) # at(sb, i)}
      d == CHOOSE i \in D : \A j \in D : i <= j
  IN IF D = {} THEN 0 ELSE IF at(sa, d) < at(sb, d) THEN -1 ELSE 1

\* C16: for versions written from numbers with '.', '-', '_' or '+' between them,
\* the result is the sign of the lexicographic comparison of the numbers, the
\* shorter sequence padded with zeros; compare("1.2.0", "1.10.0") is -1.
C16_NumericPadded ==
  out_cmp # <<>> =>
    /\ out_cmp[1] = LexSign(num_a, num_b)
    /\ (in_a = s_1_2_0 /\ in_b = s_1_10_0) => out_cmp = <<-1>>

\* "1.2.0" was compared with "1.10.0".
C16_Witness ==
  /\ out_cmp = <<-1>>
  /\ in_a = s_1_2_0
  /\ in_b = s_1_10_0

\* The string, trimmed, begins with v or V.
HasPrefix(v) == Strip(v) # <<>> /\ Head(Strip(v)) \in {"v", "V"}

\* C17: for a without a v/V prefix, "v" + a and "V" + a compare equal to a and
\* compare with b as a does; for a with a prefix, only one v is removed from
\* "v" + a: its key is that of a behind any other letter.
C17_PrefixIgnored ==
  out_cmp # <<>> =>
    /\ ~HasPrefix(in_a) =>
         /\ compare_versions(<<"v">> \o in_a, in_a) = 0
         /\ compare_versions(<<"V">> \o in_a, in_a) = 0
         /\ compare_versions(<<"v">> \o in_a, in_b) = out_cmp[1]
         /\ compare_versions(<<"V">> \o in_a, in_b) = out_cmp[1]
    /\ (in_a # <<>> /\ Head(in_a) \in {"v", "V"}) =>
         _version_key(<<"v">> \o in_a) = _version_key(<<"a">> \o in_a)

\* "1.0" was compared with "v1.0".
C17_Witness ==
  /\ out_cmp = <<0>>
  /\ in_a = s_1_0
  /\ in_b = s_v1_0

NonEmpty(p) == p # <<>>

\* The string trimmed and without one leading v or V.
Unprefixed(v) == IF HasPrefix(v) THEN Tail(Strip(v)) ELSE Strip(v)

\* The tokens of a version: the non-empty pieces between separators.
TokensOf(v) == SelectSeq(SplitOn(Unprefixed(v), VersionSeparators), NonEmpty)

\* The tokens trimmed, the blank ones discarded.
TrimmedTokensOf(v) ==
  LET p == SplitOn(Unprefixed(v), VersionSeparators)
  IN SelectSeq([i \in 1..Len(p) |-> Strip(p[i])], NonEmpty)

\* The version of the tokens, with "0" for every token that is not a number.
Zeroed(tokens) ==
  Join([i \in 1..Len(tokens) |-> IF AllDigits(tokens[i]) THEN tokens[i] ELSE <<"0">>], <<".">>)

\* C18 as stated: replacing every token that is not purely decimal digits by "0"
\* changes no comparison, and a string without tokens has the key [0].
C18_Original ==
  out_cmp # <<>> =>
    /\ out_cmp[1] = compare_versions(Zeroed(TokensOf(in_a)), in_b)
    /\ out_cmp[1] = compare_versions(in_a, Zeroed(TokensOf(in_b)))
    /\ TokensOf(in_a) = <<>> => _version_key(in_a) = <<0>>

\* C18, amended: the tokens are trimmed and the blank ones discarded before the
\* test; replacing every token that then is not purely decimal digits by "0"
\* changes no comparison, a string without tokens has the key [0], and
\* compare("1.0", "1.0-beta") is 0.
C18_NonNumericZero ==
  out_cmp # <<>> =>
    /\ out_cmp[1] = compare_versions(Zeroed(TrimmedTokensOf(in_a)), in_b)
    /\ out_cmp[1] = compare_versions(in_a, Zeroed(TrimmedTokensOf(in_b)))
    /\ TrimmedTokensOf(in_a) = <<>> => _version_key(in_a) = <<0>>
    /\ (in_a = s_1_0 /\ in_b = s_1_0_beta) => out_cmp = <<0>>

\* "1.0" was compared with "1.0-beta".
C18_Witness ==
  /\ out_cmp = <<0>>
  /\ in_a = s_1_0
  /\ in_b = s_1_0_beta

(***************************************************************************)
(* build_download_url on its own                                           *)
(***************************************************************************)

\* The characters a download spec is made of: the slash, a blank, a letter and a
\* character that quote escapes.
DlAlphabet == {"/", " ", "a", "+"}

s_v2_app_zip == <<"v", "2", "/", "a", "p", "p", ".", "z", "i", "p">>

\* Download specs of releases, absolute and relative.
DownloadPool ==
  { s_v2_app_zip,
    <<"d", "l", "/", "a", "s", "s", "e", "t", ".", "t", "a", "r">>,
    s_https \o <<"e", "/", "x", ".", "z", "i", "p">>,
    <<"H", "T", "T", "P", ":", "/", "/", "x">>,
    <<"H", "t", "t", "p", "S", ":", "/", "/", "e", "/", "a", " ", "b", "+", "c">>,
    <<"v", "2", "/">>,
    <<"h", "t", "t", "p", ":", "/", "x">>,
    <<"t", "/", "a", "/", "b", " ", "c", "~">> }

\* The versions of the entries.
EntryVersions == {<<"1", ".", "3">>, <<"1", ".", "3", "+", "b">>}

UrlInit ==
  /\ os_tag = s_linux
  /\ descriptor_url = s_descriptor_url
  /\ ClientInit
  /\ ParseIdle
  /\ CompareIdle
  /\ \E v \in EntryVersions,
        d \in DownloadPool \cup UNION {[1..m -> DlAlphabet] : m \in 0..MaxDlLen} :
       in_entry = UpdateEntry(v, s_linux, <<>>, d)
  /\ AppIdle
  /\ out_url = <<>>

\* dl_url = build_download_url(self._project, latest)
RunBuild ==
  /\ out_url = <<>>
  /\ out_url' = <<build_download_url(in_entry)>>
  /\ UNCHANGED <<client_vars, parse_vars, compare_vars, in_entry, in_c, app_vars>>

UrlNext == RunBuild

UrlSpec == UrlInit /\ [][UrlNext]_vars

\* The download spec of the entry, trimmed.
InSpec == Strip(in_entry.download)

\* The spec is relative: not empty and without the http(s):// prefix.
Relative(s) ==
  /\ s # <<>>
  /\ \A pre \in {s_http, s_https} : ~(Len(s) >= Len(pre) /\ Lower(SubSeq(s, 1, Len(pre))) = pre)

\* The spec without one leading '/'.
OneSlashLess(s) == IF s # <<>> /\ Head(s) = "/" THEN Tail(s) ELSE s

\* The spec without any of its leading '/'.
LeadingSlashLess(s) ==
  LET k == CHOOSE n \in 0..Len(s) :
             /\ \A i \in 1..n : s[i] = "/"
             /\ (n = Len(s) \/ s[n + 1] # "/")
  IN SubSeq(s, k + 1, Len(s))

\* The tag of a spec whose leading slashes are gone: the text before its first
\* '/', trimmed, and the version when that is empty or when there is no '/'.
TagOf(spec, ver) ==
  LET i == FindFrom(spec, {"/"}, 1)
  IN IF i = 0 \/ Strip(SubSeq(spec, 1, i - 1)) = <<>> THEN ver
     ELSE Strip(SubSeq(spec, 1, i - 1))

\* Its asset: the text behind the first '/', or the spec when there is none; trimmed.
AssetOf(spec) ==
  LET i == FindFrom(spec, {"/"}, 1)
  IN IF i = 0 THEN Strip(spec) ELSE Strip(SubSeq(spec, i + 1, Len(spec)))

\* The URL of a tag and an asset, "" without an asset.
UrlOf(tag, asset) ==
  IF asset = <<>> THEN <<>>
  ELSE repo_url \o s_releases_download \o quote(tag) \o <<"/">> \o quote(asset)

\* C19 as stated: for a relative spec the URL is the one of the tag and asset
\* derived from the spec without a single leading '/'.
C19_Original ==
  (out_url # <<>> /\ Relative(InSpec)) =>
    out_url[1] = UrlOf(TagOf(OneSlashLess(InSpec), in_entry.version),
                       AssetOf(OneSlashLess(InSpec)))

\* C19, amended: for a relative spec the URL is the one of the tag and asset
\* derived from the spec without all of its leading '/': split on the first '/'
\* that remains, the tag falling back to the version when it is empty after
\* trimming or when no '/' remains.
C19_TagAssetDerivation ==
  (out_url # <<>> /\ Relative(InSpec)) =>
    out_url[1] = UrlOf(TagOf(LeadingSlashLess(InSpec), in_entry.version),
                       AssetOf(LeadingSlashLess(InSpec)))

\* A spec with a leading '/' and a blank tag gave a URL under the version.
C19_Witness ==
  /\ out_url # <<>>
  /\ out_url[1] # <<>>
  /\ Relative(InSpec)
  /\ Head(InSpec) = "/"
  /\ FindFrom(LeadingSlashLess(InSpec), {"/"}, 1) > 1
  /\ TagOf(LeadingSlashLess(InSpec), in_entry.version) = in_entry.version

\* The value of a hexadecimal digit.
HexValue(c) == (CHOOSE i \in 1..16 : HexDigits[i] = c) - 1

\* A string is percent-encoded with nothing safe: it consists of letters, digits,
\* "_.-~" and of triples %XX of two hexadecimal digits.
RECURSIVE IsEncoded(_)
IsEncoded(q) ==
  IF q = <<>> THEN TRUE
  ELSE IF Head(q) = "%"
  THEN /\ Len(q) >= 3
       /\ q[2] \in {HexDigits[i] : i \in 1..16}
       /\ q[3] \in {HexDigits[i] : i \in 1..16}
       /\ IsEncoded(SubSeq(q, 4, Len(q)))
  ELSE /\ \/ Head(q) \in Digits \cup {"_", ".", "-", "~"}
          \/ Ord(Head(q)) \in (65..90) \cup (97..122)
       /\ IsEncoded(Tail(q))

\* The string a percent-encoded string stands for.
RECURSIVE Decoded(_)
Decoded(q) ==
  IF q = <<>> THEN <<>>
  ELSE IF Head(q) = "%"
  THEN <<Chr(16 * HexValue(q[2]) + HexValue(q[3]))>> \o Decoded(SubSeq(q, 4, Len(q)))
  ELSE <<Head(q)>> \o Decoded(Tail(q))

\* The part of the URL behind the repository and "/releases/download/".
UrlPath == SubSeq(out_url[1], Len(repo_url \o s_releases_download) + 1, Len(out_url[1]))

\* C20: for a relative spec with an asset the URL is the repository URL, then
\* "/releases/download/", then exactly two segments with one '/' between them,
\* each percent-encoded with no character safe, that stand for the tag and the
\* asset; the spec "v2/app.zip" gives ".../releases/download/v2/app.zip".
C20_UrlComposition ==
  (out_url # <<>> /\ Relative(InSpec) /\ AssetOf(LeadingSlashLess(InSpec)) # <<>>) =>
    /\ StartsWith(out_url[1], repo_url \o s_releases_download)
    /\ LET segs == SplitOn(UrlPath, {"/"})
       IN /\ Len(segs) = 2
          /\ IsEncoded(segs[1])
          /\ IsEncoded(segs[2])
          /\ Decoded(segs[1]) = TagOf(LeadingSlashLess(InSpec), in_entry.version)
          /\ Decoded(segs[2]) = AssetOf(LeadingSlashLess(InSpec))
    /\ in_entry.download = s_v2_app_zip =>
         out_url[1] = repo_url \o s_releases_download \o s_v2_app_zip

\* An asset with a '/' inside gave a URL.
C20_Witness ==
  /\ out_url # <<>>
  /\ out_url[1] # <<>>
  /\ Relative(InSpec)
  /\ FindFrom(AssetOf(LeadingSlashLess(InSpec)), {"/"}, 1) # 0

\* The spec is absolute: it begins with http:// or https:// in any letter case.
Absolute(s) == s # <<>> /\ ~Relative(s)

\* C21: for a spec that begins with "http://" or "https://" in any letter case
\* the result is the spec itself: nothing before it, nothing split or encoded.
C21_AbsoluteVerbatim ==
  (out_url # <<>> /\ Absolute(InSpec)) =>
    /\ out_url[1] = InSpec
    /\ in_entry.download = InSpec => out_url[1] = in_entry.download

\* A spec "HttpS://..." with a blank and a '+' in it was returned as it is.
C21_Witness ==
  /\ out_url # <<>>
  /\ Absolute(InSpec)
  /\ Head(InSpec) = "H"
  /\ \E i \in 1..Len(InSpec) : InSpec[i] = " "
  /\ out_url[1] = in_entry.download

\* C22: the result is "" exactly when the spec is empty or blank, or is relative
\* with an empty asset; every other spec gives a URL.
C22_EmptyForInvalid ==
  out_url # <<>> =>
    (out_url[1] = <<>> <=>
       \/ InSpec = <<>>
       \/ Relative(InSpec) /\ AssetOf(LeadingSlashLess(InSpec)) = <<>>)

\* The spec "v2/" gave "".
C22_Witness ==
  /\ out_url = << <<>> >>
  /\ InSpec = <<"v", "2", "/">>

\* ---------------------------------------------------------------------------
\* SinkRow: one row of the sink list
\* ---------------------------------------------------------------------------

s_reSink == <<"r", "e", "S", "i", "n", "k">>
s_alsa == <<"a", "l", "s", "a">>
s_Zed == <<"Z", "e", "d">>

\* The dataclass SinkRowModel.
SinkRowModel(name, description, is_virtual, is_default) ==
  [name |-> name, description |-> description, is_virtual |-> is_virtual,
   is_default |-> is_default]

\* A row after __init__: no model, not selected, property "selected" False.
NewRow == [model |-> None, selected |-> FALSE, shown |-> FALSE]

\* _sync_state: the Qt property "selected" follows _selected on a virtual row and
\* is False on a physical one; without a model nothing is touched.
SyncState(r) ==
  IF r.model = None THEN r
  ELSE IF r.model.is_virtual THEN [r EXCEPT !.shown = r.selected]
  ELSE [r EXCEPT !.shown = FALSE]

is_selected(r) == r.selected

set_selected(r, v) ==
  IF r.model = None THEN r
  ELSE IF ~r.model.is_virtual THEN SyncState([r EXCEPT !.selected = FALSE])
  ELSE SyncState([r EXCEPT !.selected = v])

\* A set_model that forgets to deselect a row that becomes physical.
SetModelKeepsSelection(r, m) == SyncState([r EXCEPT !.model = m])

set_model(r, m) ==
  IF m.is_virtual
  THEN SyncState([r EXCEPT !.model = m])
  ELSE SyncState([r EXCEPT !.model = m, !.selected = FALSE])

\* mouseReleaseEvent: the row after the event, and whether selection_changed was
\* emitted.
mouseReleaseEvent(r, button) ==
  IF button = "left" /\ r.model # None /\ r.model.is_virtual
  THEN [row |-> SyncState([r EXCEPT !.selected = ~r.selected]), emitted |-> TRUE]
  ELSE [row |-> r, emitted |-> FALSE]

\* The number of rows of SinkRow's own specification.
MaxRows == 2

MouseButtons == {"left", "right"}

RowModels ==
  { SinkRowModel(n, n, v, d) : n \in {s_reSink, s_alsa}, v \in BOOLEAN, d \in BOOLEAN }

\* What the last call on a row was, and what the row was like before it.
RowLog(op, i, arg, before, signal) ==
  [op |-> op, row |-> i, arg |-> arg, before |-> before, emitted |-> signal]

\* The update client while the sink manager's specifications run: constructed,
\* never asked to check.
ClientIdle == os_tag = s_linux /\ descriptor_url = s_descriptor_url /\ ClientInit

SuggestIdle == existing_names = {} /\ out_name = <<>>

BackendIdle ==
  /\ pw_status = "ok" /\ pw_stdout = <<>> /\ in_node = <<>> /\ cmd_status = "ok"
  /\ out_backend = <<>>

\* Rows on their own, outside a window: the server and the buttons play no part.
RowInit ==
  /\ ClientIdle
  /\ ParseIdle
  /\ CompareIdle
  /\ UrlIdle
  /\ SuggestIdle
  /\ BackendIdle
  /\ sinks = {}
  /\ default_sink = <<>>
  /\ destroy_enabled = TRUE
  /\ default_enabled = TRUE
  /\ ui_log = None
  /\ rows = [i \in 1..MaxRows |-> NewRow]

RowUnchanged ==
  UNCHANGED <<client_vars, pure_vars, suggest_vars, backend_vars, sinks, default_sink,
              destroy_enabled, default_enabled>>

RowSetModel(i, m) ==
  /\ rows' = [rows EXCEPT ![i] = set_model(rows[i], m)]
  /\ ui_log' = RowLog("set_model", i, m.is_virtual, rows[i], FALSE)
  /\ RowUnchanged

RowSetSelected(i, v) ==
  /\ rows' = [rows EXCEPT ![i] = set_selected(rows[i], v)]
  /\ ui_log' = RowLog("set_selected", i, v, rows[i], FALSE)
  /\ RowUnchanged

RowMouseRelease(i, button) ==
  /\ rows' = [rows EXCEPT ![i] = mouseReleaseEvent(rows[i], button).row]
  /\ ui_log' = RowLog("click", i, button = "left", rows[i],
                      mouseReleaseEvent(rows[i], button).emitted)
  /\ RowUnchanged

RowNext ==
  \E i \in 1..MaxRows :
    \/ \E m \in RowModels : RowSetModel(i, m)
    \/ \E v \in BOOLEAN : RowSetSelected(i, v)
    \/ \E button \in MouseButtons : RowMouseRelease(i, button)

RowSpec == RowInit /\ [][RowNext]_vars

\* The row has a model and the model is a virtual sink.
IsVirtualRow(r) == r.model # None /\ r.model.is_virtual

IsPhysicalRow(r) == r.model # None /\ ~r.model.is_virtual

\* C23: a row is selected only if its current model is virtual, whatever calls
\* of set_model, set_selected and clicks came before; after a click or a
\* set_selected on a physical row the row is unselected, and after a set_model
\* to a physical sink the row is unselected even if it was selected before.
C23_OnlyVirtualSelected ==
  /\ \A i \in 1..Len(rows) :
       /\ is_selected(rows[i]) => IsVirtualRow(rows[i])
       /\ rows[i].shown => is_selected(rows[i])
  /\ ui_log # None =>
       /\ (ui_log.op \in {"click", "set_selected"} /\ IsPhysicalRow(ui_log.before)) =>
            /\ ~is_selected(rows[ui_log.row])
            /\ ~ui_log.emitted
       /\ (ui_log.op = "set_model" /\ ~ui_log.arg) => ~is_selected(rows[ui_log.row])

\* A selected virtual row was given a physical model and is no longer selected.
C23_Witness ==
  /\ ui_log # None
  /\ ui_log.op = "set_model"
  /\ IsVirtualRow(ui_log.before)
  /\ is_selected(ui_log.before)
  /\ IsPhysicalRow(rows[ui_log.row])
  /\ ~is_selected(rows[ui_log.row])

\* ---------------------------------------------------------------------------
\* MainWindow: the sink list and its actions
\* ---------------------------------------------------------------------------

s_reSink_2 == s_reSink \o <<"-", "2">>

\* A sink as pulse.sink_list() reports it; is_virtual is what is_virtual_sink
\* answers for its property list.
PulseSink(name, description, is_virtual) ==
  [name |-> name, description |-> description, is_virtual |-> is_virtual]

\* The sinks a server can have: two virtual ones, listed against the order of
\* their names, and a physical one without a description.
SinkPool ==
  { PulseSink(s_reSink, s_Zed, TRUE),
    PulseSink(s_reSink_2, s_reSink_2, TRUE),
    PulseSink(s_alsa, <<>>, FALSE) }

NamesOf(S) == { x.name : x \in S }

\* The dataclass SinkInfo.
SinkInfo(name, description, is_virtual, is_default) ==
  [name |-> name, description |-> description, is_virtual |-> is_virtual,
   is_default |-> is_default]

\* a < b for two str.
RECURSIVE StrLess(_, _)
StrLess(a, b) ==
  IF b = <<>> THEN FALSE
  ELSE IF a = <<>> THEN TRUE
  ELSE IF Head(a) # Head(b) THEN Ord(Head(a)) < Ord(Head(b))
  ELSE StrLess(Tail(a), Tail(b))

\* The sort key of list_sinks: (not is_virtual, description.lower(), name.lower()).
SortKeyLess(x, y) ==
  IF x.is_virtual # y.is_virtual THEN x.is_virtual
  ELSE IF Lower(x.description) # Lower(y.description)
       THEN StrLess(Lower(x.description), Lower(y.description))
  ELSE StrLess(Lower(x.name), Lower(y.name))

RECURSIVE SortByKey(_)
SortByKey(S) ==
  IF S = {} THEN <<>>
  ELSE LET x == CHOOSE x \in S : \A y \in S \ {x} : SortKeyLess(x, y)
       IN <<x>> \o SortByKey(S \ {x})

\* ReSinkBackend.list_sinks for a server with the sinks S and the default name d.
list_sinks(S, d) ==
  SortByKey({ SinkInfo(x.name, IF x.description = <<>> THEN x.name ELSE x.description,
                       x.is_virtual, x.name = Strip(d)) : x \in S })

\* _selected_virtual_sinks: the models of the rows that are virtual and selected,
\* in layout order.
RECURSIVE _selected_virtual_sinks(_)
_selected_virtual_sinks(rs) ==
  IF rs = <<>> THEN <<>>
  ELSE IF Head(rs).model # None /\ Head(rs).model.is_virtual /\ is_selected(Head(rs))
       THEN <<Head(rs).model>> \o _selected_virtual_sinks(Tail(rs))
       ELSE _selected_virtual_sinks(Tail(rs))

\* _rebuild_sink_rows: a new row for every sink, in the order of the list.
RebuiltRows(list) ==
  [i \in 1..Len(list) |->
     set_model(NewRow, SinkRowModel(list[i].name, list[i].description,
                                    list[i].is_virtual, list[i].is_default))]

\* What the handler of the window that ran last did, None once a click or the
\* server changed something after it: the rows and the server it found,
\* the user's answer, the names it passed to the backend function, in order, those
\* for which the function raised, whether it refreshed, and the message box shown.
WinLog(op, answer, attempted, errors, refreshed, message) ==
  [op |-> op, before |-> rows, sinks_before |-> sinks, default_before |-> default_sink,
   answer |-> answer, attempted |-> attempted, errors |-> errors,
   refreshed |-> refreshed, message |-> message]

WinUnchanged == UNCHANGED <<client_vars, pure_vars, suggest_vars, backend_vars>>

\* _update_action_states for the rows rs.
UpdateActionStates(rs) ==
  /\ destroy_enabled' = (Len(_selected_virtual_sinks(rs)) > 0)
  /\ default_enabled' = (Len(_selected_virtual_sinks(rs)) = 1)

\* refresh against the server (S, d): the rows are rebuilt, or, when list_sinks
\* raises, an error box is shown and nothing changes.
RefreshFrom(S, d, list_ok) ==
  IF list_ok
  THEN /\ rows' = RebuiltRows(list_sinks(S, d))
       /\ UpdateActionStates(RebuiltRows(list_sinks(S, d)))
  ELSE UNCHANGED <<rows, destroy_enabled, default_enabled>>

\* MainWindow.__init__ ends with refresh(); the buttons are enabled when created.
WindowInit ==
  /\ ClientIdle
  /\ ParseIdle
  /\ CompareIdle
  /\ UrlIdle
  /\ SuggestIdle
  /\ BackendIdle
  /\ sinks \in SUBSET SinkPool
  /\ default_sink \in NamesOf(sinks) \cup {<<>>}
  /\ ui_log = None
  /\ \E list_ok \in BOOLEAN :
       IF list_ok
       THEN /\ rows = RebuiltRows(list_sinks(sinks, default_sink))
            /\ destroy_enabled = FALSE
            /\ default_enabled = FALSE
       ELSE /\ rows = <<>>
            /\ destroy_enabled = TRUE
            /\ default_enabled = TRUE

\* Another program creates or removes a sink, or changes the default.
ServerChange ==
  /\ \/ \E x \in SinkPool \ sinks : sinks' = sinks \cup {x} /\ UNCHANGED default_sink
     \/ \E x \in sinks :
          /\ sinks' = sinks \ {x}
          /\ default_sink' = IF default_sink = x.name THEN <<>> ELSE default_sink
     \/ \E x \in sinks : default_sink' = x.name /\ default_sink # x.name /\ UNCHANGED sinks
  /\ ui_log' = None
  /\ UNCHANGED <<rows, destroy_enabled, default_enabled>>
  /\ WinUnchanged

\* A mouse button released over row i; selection_changed is connected to
\* _update_action_states.
Click(i, button) ==
  /\ rows' = [rows EXCEPT ![i] = mouseReleaseEvent(rows[i], button).row]
  /\ IF mouseReleaseEvent(rows[i], button).emitted
     THEN UpdateActionStates([rows EXCEPT ![i] = mouseReleaseEvent(rows[i], button).row])
     ELSE UNCHANGED <<destroy_enabled, default_enabled>>
  /\ ui_log' = None
  /\ UNCHANGED <<sinks, default_sink>>
  /\ WinUnchanged

\* The Refresh button.
Refresh(list_ok) ==
  /\ RefreshFrom(sinks, default_sink, list_ok)
  /\ ui_log' = WinLog("refresh", FALSE, <<>>, <<>>, list_ok,
                      IF list_ok THEN "none" ELSE "critical")
  /\ UNCHANGED <<sinks, default_sink>>
  /\ WinUnchanged

NamesIn(sel) == [i \in 1..Len(sel) |-> sel[i].name]

\* A loop that gives up at the first sink that cannot be destroyed.
RECURSIVE DestroyLoopStops(_, _)
DestroyLoopStops(names, failing) ==
  IF names = <<>> THEN [attempted |-> <<>>, errors |-> <<>>]
  ELSE IF Head(names) \in failing
       THEN [attempted |-> <<Head(names)>>, errors |-> <<Head(names)>>]
       ELSE [attempted |-> <<Head(names)>> \o DestroyLoopStops(Tail(names), failing).attempted,
             errors |-> DestroyLoopStops(Tail(names), failing).errors]

\* for m in sel: try destroy_sink_by_name(m.name), except: errors.append(...).
\* failing holds the names for which the call raises.
RECURSIVE DestroyLoop(_, _)
DestroyLoop(names, failing) ==
  IF names = <<>> THEN [attempted |-> <<>>, errors |-> <<>>]
  ELSE [attempted |-> <<Head(names)>> \o DestroyLoop(Tail(names), failing).attempted,
        errors |-> (IF Head(names) \in failing THEN <<Head(names)>> ELSE <<>>)
                     \o DestroyLoop(Tail(names), failing).errors]

Range(seq) == { seq[i] : i \in 1..Len(seq) }

\* The server once the sinks named in gone are destroyed.
SinksWithout(gone) == { x \in sinks : x.name \notin gone }

\* _destroy_selected. answer is the button of the question box, failing the
\* names for which destroy_sink_by_name raises, list_ok whether the refresh can
\* list the sinks.
DestroySelected(answer, failing, list_ok) ==
  IF _selected_virtual_sinks(rows) = <<>>
  THEN /\ ui_log' = WinLog("destroy", "none", <<>>, <<>>, FALSE, "information")
       /\ UNCHANGED <<sinks, default_sink, rows, destroy_enabled, default_enabled>>
       /\ WinUnchanged
  ELSE IF answer # "yes"
  THEN /\ ui_log' = WinLog("destroy", answer, <<>>, <<>>, FALSE, "none")
       /\ UNCHANGED <<sinks, default_sink, rows, destroy_enabled, default_enabled>>
       /\ WinUnchanged
  ELSE /\ sinks' = SinksWithout(Range(NamesIn(_selected_virtual_sinks(rows))) \ failing)
       /\ default_sink' \in
            IF default_sink \in Range(NamesIn(_selected_virtual_sinks(rows))) \ failing
            THEN NamesOf(sinks') \cup {<<>>}
            ELSE {default_sink}
       /\ RefreshFrom(sinks', default_sink', list_ok)
       /\ ui_log' = WinLog("destroy", answer,
                           DestroyLoop(NamesIn(_selected_virtual_sinks(rows)), failing).attempted,
                           DestroyLoop(NamesIn(_selected_virtual_sinks(rows)), failing).errors,
                           list_ok,
                           IF DestroyLoop(NamesIn(_selected_virtual_sinks(rows)), failing).errors # <<>>
                           THEN "critical" ELSE "none")
       /\ WinUnchanged

\* A guard that lets the first of several selected sinks through.
AtLeastOne(sel) == Len(sel) >= 1

\* len(sel) != 1 is refused.
ExactlyOne(sel) == Len(sel) = 1

\* _make_default. fails says whether set_default_sink raises.
MakeDefault(fails, list_ok) ==
  IF _selected_virtual_sinks(rows) = <<>>
  THEN /\ ui_log' = WinLog("default", "none", <<>>, <<>>, FALSE, "information")
       /\ UNCHANGED <<sinks, default_sink, rows, destroy_enabled, default_enabled>>
       /\ WinUnchanged
  ELSE IF ~ExactlyOne(_selected_virtual_sinks(rows))
  THEN /\ ui_log' = WinLog("default", "none", <<>>, <<>>, FALSE, "warning")
       /\ UNCHANGED <<sinks, default_sink, rows, destroy_enabled, default_enabled>>
       /\ WinUnchanged
  ELSE IF fails
  THEN /\ ui_log' = WinLog("default", "none", <<_selected_virtual_sinks(rows)[1].name>>,
                           <<_selected_virtual_sinks(rows)[1].name>>, FALSE, "critical")
       /\ UNCHANGED <<sinks, default_sink, rows, destroy_enabled, default_enabled>>
       /\ WinUnchanged
  ELSE /\ default_sink' = _selected_virtual_sinks(rows)[1].name
       /\ RefreshFrom(sinks, default_sink', list_ok)
       /\ ui_log' = WinLog("default", "none", <<_selected_virtual_sinks(rows)[1].name>>,
                           <<>>, list_ok, "none")
       /\ UNCHANGED sinks
       /\ WinUnchanged

Answers == {"yes", "no", "closed"}

WindowNext ==
  \/ ServerChange
  \/ \E i \in 1..Len(rows), button \in MouseButtons : Click(i, button)
  \/ \E list_ok \in BOOLEAN : Refresh(list_ok)
  \/ \E answer \in Answers, list_ok \in BOOLEAN,
        failing \in SUBSET Range(NamesIn(_selected_virtual_sinks(rows))) :
       DestroySelected(answer, failing, list_ok)
  \/ \E fails \in BOOLEAN, list_ok \in BOOLEAN : MakeDefault(fails, list_ok)

WindowSpec == WindowInit /\ [][WindowNext]_vars

\* The rows of rs that show a virtual sink and are selected.
SelectedRows(rs) == { i \in 1..Len(rs) : IsVirtualRow(rs[i]) /\ is_selected(rs[i]) }

\* How often the name n was passed to the backend function.
Attempts(n) == Cardinality({ k \in 1..Len(ui_log.attempted) : ui_log.attempted[k] = n })

\* C24: after Destroy selected with the answer Yes, destroy_sink_by_name has been
\* called exactly once for the sink of every row that was virtual and selected,
\* also behind one that failed, and for no other name; the failures are among the
\* attempts and an error box reports them; without a selection or without the
\* answer Yes nothing is attempted and the server keeps its sinks.
C24_DestroySelectedOnly ==
  (ui_log # None /\ ui_log.op = "destroy") =>
    IF SelectedRows(ui_log.before) # {} /\ ui_log.answer = "yes"
    THEN /\ \A i \in SelectedRows(ui_log.before) : Attempts(ui_log.before[i].model.name) = 1
         /\ \A k \in 1..Len(ui_log.attempted) :
              \E i \in SelectedRows(ui_log.before) :
                ui_log.attempted[k] = ui_log.before[i].model.name
         /\ Len(ui_log.attempted) = Cardinality(SelectedRows(ui_log.before))
         /\ Range(ui_log.errors) \subseteq Range(ui_log.attempted)
         /\ (ui_log.message = "critical") <=> (ui_log.errors # <<>>)
         /\ \A x \in ui_log.sinks_before \ sinks : x.name \in Range(ui_log.attempted)
    ELSE /\ ui_log.attempted = <<>>
         /\ sinks = ui_log.sinks_before
         /\ default_sink = ui_log.default_before
         /\ rows = ui_log.before

\* Two sinks were selected, the first could not be destroyed, the second was
\* destroyed all the same, and the failure was reported.
C24_Witness ==
  /\ ui_log # None
  /\ ui_log.op = "destroy"
  /\ Len(ui_log.attempted) = 2
  /\ ui_log.errors = <<ui_log.attempted[1]>>
  /\ ui_log.attempted[2] \in NamesOf(ui_log.sinks_before)
  /\ ui_log.attempted[2] \notin NamesOf(sinks)
  /\ ui_log.message = "critical"

\* C25: Make Default calls set_default_sink only when exactly one virtual sink is
\* selected, and then once, with the name of that sink; with no or with several
\* selected sinks it makes no call, the default and the rows stay as they are and
\* the list is not refreshed.
C25_MakeDefaultExactlyOne ==
  (ui_log # None /\ ui_log.op = "default") =>
    IF Cardinality(SelectedRows(ui_log.before)) = 1
    THEN \A i \in SelectedRows(ui_log.before) :
           /\ ui_log.attempted = <<ui_log.before[i].model.name>>
           /\ default_sink \in {ui_log.default_before, ui_log.before[i].model.name}
    ELSE /\ ui_log.attempted = <<>>
         /\ default_sink = ui_log.default_before
         /\ ~ui_log.refreshed
         /\ rows = ui_log.before
         /\ ui_log.message \in {"information", "warning"}

\* Make Default ran with two sinks selected and only warned.
C25_Witness ==
  /\ ui_log # None
  /\ ui_log.op = "default"
  /\ Cardinality(SelectedRows(ui_log.before)) = 2
  /\ ui_log.message = "warning"
  /\ ui_log.attempted = <<>>

\* ---------------------------------------------------------------------------
\* suggest_resink_name
\* ---------------------------------------------------------------------------

base_name == s_reSink

\* A candidate without the dash.
CandidateNoDash(i) == base_name \o Decimal(i)

\* f"{base_name}-{i}"
Candidate(i) == base_name \o <<"-">> \o Decimal(i)

\* The while loop, entered with the counter i.
RECURSIVE SuggestFrom(_, _)
SuggestFrom(existing, i) ==
  IF Candidate(i) \notin existing THEN Candidate(i) ELSE SuggestFrom(existing, i + 1)

suggest_resink_name(existing) ==
  IF base_name \notin existing THEN base_name ELSE SuggestFrom(existing, 2)

\* The largest k for which "reSink-k" can be among the existing names.
MaxSuffix == 10

\* Names of the sequence, and names that only look like them.
NamePool ==
  {base_name} \cup { base_name \o <<"-">> \o Decimal(k) : k \in 2..MaxSuffix }
    \cup { base_name \o <<"-", "1">>, base_name \o <<"-", "0", "2">>, Lower(base_name) }

SuggestInit ==
  /\ ClientIdle
  /\ ParseIdle
  /\ CompareIdle
  /\ UrlIdle
  /\ BackendIdle
  /\ sinks = {} /\ default_sink = <<>> /\ rows = <<>>
  /\ destroy_enabled = TRUE /\ default_enabled = TRUE /\ ui_log = None
  /\ existing_names \in SUBSET NamePool
  /\ out_name = <<>>

\* name = suggest_resink_name()
RunSuggest ==
  /\ out_name = <<>>
  /\ out_name' = <<suggest_resink_name(existing_names)>>
  /\ UNCHANGED <<client_vars, pure_vars, ui_vars, backend_vars, existing_names>>

SuggestNext == RunSuggest

SuggestSpec == SuggestInit /\ [][SuggestNext]_vars

\* The k-th name of the sequence reSink, reSink-2, reSink-3, ...
SeqName(k) == IF k = 1 THEN s_reSink ELSE s_reSink \o <<"-">> \o Decimal(k)

\* C26: the name returned is the first name of the sequence reSink, reSink-2,
\* reSink-3, ... that is not an existing name: it is not in E, every earlier name
\* of the sequence is in E, and it is found within |E| + 1 names.
C26_NextFreeName ==
  out_name # <<>> =>
    /\ out_name[1] \notin existing_names
    /\ \E k \in 1..(Cardinality(existing_names) + 1) :
         /\ out_name[1] = SeqName(k)
         /\ \A j \in 1..(k - 1) : SeqName(j) \in existing_names
    /\ s_reSink \notin existing_names => out_name[1] = s_reSink

\* reSink and reSink-2 to reSink-9 exist, with names that are not of the
\* sequence; the answer is reSink-10.
C26_Witness ==
  /\ out_name = <<SeqName(10)>>
  /\ s_reSink \o <<"-", "1">> \in existing_names
  /\ s_reSink \o <<"-", "0", "2">> \in existing_names

\* ---------------------------------------------------------------------------
\* resink_backend: resolving a node and acting on it
\* ---------------------------------------------------------------------------

\* needle in line
Contains(line, needle) ==
  \E k \in 1..(Len(line) - Len(needle) + 1) : SubSeq(line, k, k + Len(needle) - 1) = needle

\* s.replace(",", " ")
CommasToBlanks(s) == [i \in 1..Len(s) |-> IF s[i] = "," THEN " " ELSE s[i]]

\* s.split(): the pieces between runs of whitespace, none of them empty.
SplitWhitespace(s) == SelectNonBlank(SplitOnRuns(s, Whitespace))

s_id ==
  <<"i", "d">>

\* 'node.name = "{node_name}"'
NodeNameProperty(node_name) ==
  <<"n", "o", "d", "e", ".", "n", "a", "m", "e", " ", "=", " ", "\"">> \o node_name \o <<"\"">>

\* The id on a stripped "id" line, in a tuple: parts[1] if it is all digits, else
\* nothing.
IdOfParts(parts) ==
  IF Len(parts) >= 2 /\ AllDigits(parts[2]) THEN <<parts[2]>> ELSE <<>>

IdOfLine(s) == IdOfParts(SplitWhitespace(CommasToBlanks(s)))

\* A scan that takes the first "id" line of the output instead of the nearest.
RECURSIVE ScanFromTop(_, _)
ScanFromTop(lines, j) ==
  IF j = 0 THEN [found |-> FALSE, id |-> <<>>]
  ELSE IF ScanFromTop(lines, j - 1).found THEN ScanFromTop(lines, j - 1)
  ELSE IF StartsWith(Strip(lines[j]), s_id)
       THEN [found |-> TRUE, id |-> IdOfLine(Strip(lines[j]))]
       ELSE [found |-> FALSE, id |-> <<>>]

\* for prev in reversed(lines[:i]), with j = i - 1 lines before the match: the
\* first line met that starts with "id" decides; found is FALSE if there is none.
RECURSIVE ScanBack(_, _)
ScanBack(lines, j) ==
  IF j = 0 THEN [found |-> FALSE, id |-> <<>>]
  ELSE IF StartsWith(Strip(lines[j]), s_id)
       THEN [found |-> TRUE, id |-> IdOfLine(Strip(lines[j]))]
       ELSE ScanBack(lines, j - 1)

\* for i, line in enumerate(lines), from line i on: a line with the property
\* whose scan meets an "id" line returns; any other line is passed over.
RECURSIVE ScanLines(_, _, _)
ScanLines(lines, needle, i) ==
  IF i > Len(lines) THEN <<>>
  ELSE IF Contains(lines[i], needle) /\ ScanBack(lines, i - 1).found
       THEN ScanBack(lines, i - 1).id
       ELSE ScanLines(lines, needle, i + 1)

\* get_sink_node_id_by_name: the id in a tuple, the empty tuple for None. status
\* says how `pw-cli list-objects` ended: "ok", "failed" (a returncode that is not
\* 0) or "missing" (FileNotFoundError).
get_sink_node_id_by_name(status, stdout, node_name) ==
  IF status # "ok" THEN <<>>
  ELSE ScanLines(SplitLines(stdout), NodeNameProperty(node_name), 1)

\* A command handed to _run.
Command(prog, verb, id) == [prog |-> prog, verb |-> verb, id |-> id]

\* What destroy_sink_by_name and set_default_sink have in common: no id, no
\* command and a RuntimeError; else the command, and a RuntimeError unless it
\* ends with returncode 0.
ActOnNode(sink_id, prog, verb, status) ==
  IF sink_id = <<>>
  THEN [raised |-> "RuntimeError", commands |-> <<>>]
  ELSE [raised |-> IF status = "ok" THEN "none" ELSE "RuntimeError",
        commands |-> <<Command(prog, verb, sink_id[1])>>]

destroy_sink_by_name(status, stdout, node_name, cmd) ==
  ActOnNode(get_sink_node_id_by_name(status, stdout, node_name), "pw-cli", "destroy", cmd)

set_default_sink(status, stdout, node_name, cmd) ==
  ActOnNode(get_sink_node_id_by_name(status, stdout, node_name), "wpctl", "set-default", cmd)

\* The number of lines of the listing.
MaxOut == 3

l_id56 ==
  <<"\t", "i", "d", " ", "5", "6", ",", " ", "t", "y", "p", "e", " ", "P", "i", "p",
    "e", "W", "i", "r", "e", ":", "I", "n", "t", "e", "r", "f", "a", "c", "e", ":",
    "N", "o", "d", "e", "/", "3">>

l_id7 ==
  <<"i", "d", " ", "7", ",">>

l_idx ==
  <<"\t", "i", "d", " ", "x", "7", ",", " ", "t", "y", "p", "e">>

l_name_a ==
  <<"\t", "\t", "n", "o", "d", "e", ".", "n", "a", "m", "e", " ", "=", " ", "\"", "a",
    "\"">>

l_name_ab ==
  <<" ", "\t", "\t", "n", "o", "d", "e", ".", "n", "a", "m", "e", " ", "=", " ", "\"",
    "a", "b", "\"">>

l_factory ==
  <<" ", "\t", "\t", "f", "a", "c", "t", "o", "r", "y", ".", "i", "d", " ", "=", " ",
    "\"", "8", "\"">>

\* Lines of a listing: objects begin with an "id" line, one of them garbled, and
\* properties follow, one to a line.
ListingPool == {l_id56, l_id7, l_idx, l_name_a, l_name_ab, l_factory}

RECURSIVE ListingsOf(_)
ListingsOf(n) ==
  IF n = 0 THEN {<<>>}
  ELSE ListingsOf(n - 1) \cup { <<l>> \o t : l \in ListingPool, t \in ListingsOf(n - 1) }

\* The text of a listing: every line ends with a newline.
RECURSIVE ListingText(_)
ListingText(lines) ==
  IF lines = <<>> THEN <<>> ELSE Head(lines) \o <<"\n">> \o ListingText(Tail(lines))

RunStatuses == {"ok", "failed", "missing"}

BackendInit ==
  /\ ClientIdle
  /\ ParseIdle
  /\ CompareIdle
  /\ UrlIdle
  /\ SuggestIdle
  /\ sinks = {} /\ default_sink = <<>> /\ rows = <<>>
  /\ destroy_enabled = TRUE /\ default_enabled = TRUE /\ ui_log = None
  /\ pw_status \in RunStatuses
  /\ pw_stdout \in { ListingText(t) : t \in ListingsOf(MaxOut) }
  /\ in_node \in {<<"a">>, <<"a", "b">>}
  /\ cmd_status \in RunStatuses
  /\ out_backend = <<>>

BackendUnchanged ==
  UNCHANGED <<client_vars, pure_vars, ui_vars, suggest_vars, pw_status, pw_stdout, in_node,
              cmd_status>>

\* destroy_sink_by_name(node_name)
RunDestroy ==
  /\ out_backend = <<>>
  /\ out_backend' = <<destroy_sink_by_name(pw_status, pw_stdout, in_node, cmd_status)>>
  /\ BackendUnchanged

\* set_default_sink(node_name)
RunSetDefault ==
  /\ out_backend = <<>>
  /\ out_backend' = <<set_default_sink(pw_status, pw_stdout, in_node, cmd_status)>>
  /\ BackendUnchanged

BackendNext == RunDestroy \/ RunSetDefault

BackendSpec == BackendInit /\ [][BackendNext]_vars

\* The lines of the listing.
Listed == SplitLines(pw_stdout)

\* An "id" line begins an object: its first word begins with "id".
IsIdLine(l) == StartsWith(Strip(l), s_id)

\* The line holds the property node.name = "<name>" for the name asked for.
HasNodeName(l) == Contains(l, NodeNameProperty(in_node))

\* The "id" lines of the objects that have the property: between the "id" line
\* and the property there is no other "id" line.
ObjectsWithNode ==
  { j \in 1..Len(Listed) :
      /\ IsIdLine(Listed[j])
      /\ \E i \in (j + 1)..Len(Listed) :
           /\ HasNodeName(Listed[i])
           /\ \A k \in (j + 1)..i : ~IsIdLine(Listed[k]) }

FirstObjectWithNode == CHOOSE j \in ObjectsWithNode : \A k \in ObjectsWithNode : j <= k

\* The id written on a line of the listing, in a tuple; nothing if it is not a
\* number.
ListedId(l) ==
  IF l = l_id56 THEN << <<"5", "6">> >>
  ELSE IF l = l_id7 THEN << <<"7">> >>
  ELSE <<>>

\* The node is resolved: the listing succeeded, an object has the property, and
\* the "id" line of the first such object carries a number.
Resolved ==
  /\ pw_status = "ok"
  /\ ObjectsWithNode # {}
  /\ ListedId(Listed[FirstObjectWithNode]) # <<>>

\* C27: destroy_sink_by_name and set_default_sink run `pw-cli destroy <id>` or
\* `wpctl set-default <id>` once, with the id of the "id" line that begins the
\* first listed object with the property node.name = "<name>", and only if the
\* node is resolved; if the listing fails or is missing, no object has the
\* property, or that "id" line carries no number, they raise RuntimeError and run
\* no such command.
C27_ActOnResolvedNode ==
  out_backend # <<>> =>
    IF Resolved
    THEN /\ Len(out_backend[1].commands) = 1
         /\ out_backend[1].commands[1].id = ListedId(Listed[FirstObjectWithNode])[1]
         /\ <<out_backend[1].commands[1].prog, out_backend[1].commands[1].verb>>
              \in {<<"pw-cli", "destroy">>, <<"wpctl", "set-default">>}
    ELSE /\ out_backend[1].raised = "RuntimeError"
         /\ out_backend[1].commands = <<>>

\* Object 7 comes first, object 56 has the name: 56 is destroyed.
C27_Witness ==
  /\ out_backend # <<>>
  /\ Listed = <<l_id7, l_id56, l_name_a>>
  /\ in_node = <<"a">>
  /\ pw_status = "ok"
  /\ out_backend[1].commands = <<Command("pw-cli", "destroy", <<"5", "6">>)>>

\* ---------------------------------------------------------------------------
\* UpdateClient: refused calls and the order of delivery and release
\* ---------------------------------------------------------------------------

\* A step that is a call of check_now which is refused.
IsRefusedCall == IsCall /\ ncalls' \notin accepted'

\* The callback the call k supplied.
OwnCallback(k) == IF k \in callbacks THEN k ELSE NoCallback

\* C28: a refused check_now changes neither the in-flight flag nor the stored
\* callback, ignore_skip or show_dialog, and touches no request or timer; from the
\* acceptance of a check to the return of its _on_reply no step changes
\* ignore_skip or show_dialog, so the result is decided with the values of the
\* accepted call; the result of a reply goes to the callback of the call that
\* was accepted, and the callback of a refused call runs once, for its own error.
C28_RejectedLeavesCheck ==
  /\ [][IsRefusedCall =>
          /\ UNCHANGED <<in_flight, cb, ignore_skip, show_dialog, replies, timers, nrequests>>
          /\ last'.call = ncalls'
          /\ last'.origin \in {"busy", "config"}
          /\ last'.cb_to = (IF ncalls' \in callbacks' THEN ncalls' ELSE NoCallback)]_vars
  /\ [][(CheckInFlight /\ CheckInFlight') => UNCHANGED <<ignore_skip, show_dialog>>]_vars
  /\ [][(CheckInFlight /\ cb' # cb) => (~IsCall /\ pc' = "emit" /\ cb' = NoCallback)]_vars
  /\ []((last # NoDelivery /\ last.origin = "reply") =>
          /\ last.call \in accepted
          /\ last.cb_to = OwnCallback(last.call)
          /\ last.ignore_skip = ignore_skip
          /\ last.show_dialog = show_dialog)
  /\ [](\A k \in 1..ncalls : k \notin accepted => cbcount[k] = (IF k \in callbacks THEN 1 ELSE 0))

\* A call with a callback was refused while the first check was in flight, and
\* the check then delivered its result to its own callback; each callback has run
\* once.
C28_Witness ==
  /\ last # NoDelivery
  /\ last.origin = "reply"
  /\ last.call = 1
  /\ last.cb_to = 1
  /\ 2 \in callbacks
  /\ 2 \notin accepted
  /\ ncalls >= 2
  /\ cbcount[1] = 1
  /\ cbcount[2] = 1

\* C29: the result of an accepted check is emitted while the in-flight flag is
\* still true, and the flag stays true until _on_reply returns; a check_now made
\* during the emission or the callback is refused with "Update check already
\* running." and starts no request; a call is accepted only when no _on_reply is
\* running and the one of every earlier accepted check has returned.
C29_DeliveredBeforeRelease ==
  /\ []((last # NoDelivery /\ last.origin = "reply") => last.in_flight)
  /\ [](pc # "idle" => in_flight)
  /\ [][(IsCall /\ pc = "emit") =>
          /\ Rejected("Update check already running.")'
          /\ nrequests' = nrequests
          /\ replies' = replies
          /\ in_flight']_vars
  /\ [][(IsCall /\ ncalls' \in accepted') => (pc = "idle" /\ ~CheckInFlight)]_vars
  /\ [][(in_flight /\ ~in_flight') => (pc = "emit" /\ pc' = "idle")]_vars

\* check_now was called from the callback of the first check, during its
\* emission, and was refused.
C29_Witness ==
  /\ pc = "emit"
  /\ handling = 1
  /\ ncalls = 2
  /\ 1 \in callbacks
  /\ cbcount[1] = 1
  /\ last # NoDelivery
  /\ last.origin = "busy"
  /\ last.call = 2
  /\ nrequests = 1

\* ---------------------------------------------------------------------------
\* compare_versions on three versions
\* ---------------------------------------------------------------------------

OrderInit ==
  /\ ClientIdle
  /\ ParseIdle
  /\ UrlIdle
  /\ AppIdle
  /\ in_a \in VersionPool
  /\ in_b \in VersionPool
  /\ in_c \in VersionPool
  /\ num_a = <<>>
  /\ num_b = <<>>
  /\ out_cmp = <<>>

\* compare_versions(a, b), compare_versions(b, c), compare_versions(a, c)
RunCompareThree ==
  /\ out_cmp = <<>>
  /\ out_cmp' = <<compare_versions(in_a, in_b), compare_versions(in_b, in_c),
                  compare_versions(in_a, in_c)>>
  /\ UNCHANGED <<client_vars, parse_vars, url_vars, in_a, in_b, in_c, num_a, num_b, app_vars>>

OrderNext == RunCompareThree

OrderSpec == OrderInit /\ [][OrderNext]_vars

\* A descriptor line for Linux with the version v.
LineOf(v) == v \o <<"|", "l", "i", "n", "u", "x", "|", "x">>

\* latest of the descriptor whose lines carry the versions x, y, z in this order.
LatestOf(x, y, z) ==
  parse_descriptor(Text(<<LineOf(x), LineOf(y), LineOf(z)>>), s_linux, s_1_2_0).latest

\* Both are None, or both are entries whose versions compare equal.
SameClass(e, f) ==
  IF e = None \/ f = None THEN e = f ELSE compare_versions(e.version, f.version) = 0

\* C30: compare_versions is transitive on versions with any numbers of
\* components: a <= b and b <= c give a <= c, and a = b and b = c give a = c; and
\* the descriptors that hold the same three lines in any order have a latest of
\* the same version class.
C30_Transitive ==
  out_cmp # <<>> =>
    /\ \A i \in 1..3 : out_cmp[i] \in {-1, 0, 1}
    /\ (out_cmp[1] <= 0 /\ out_cmp[2] <= 0) => out_cmp[3] <= 0
    /\ (out_cmp[1] = 0 /\ out_cmp[2] = 0) => out_cmp[3] = 0
    /\ (out_cmp[1] >= 0 /\ out_cmp[2] >= 0) => out_cmp[3] >= 0
    /\ \A e \in { LatestOf(in_a, in_c, in_b), LatestOf(in_b, in_a, in_c),
                  LatestOf(in_b, in_c, in_a), LatestOf(in_c, in_a, in_b),
                  LatestOf(in_c, in_b, in_a) } :
         SameClass(e, LatestOf(in_a, in_b, in_c))

\* Three spellings of one version, with one, two and three components, compare
\* equal pair by pair.
C30_Witness ==
  /\ out_cmp = <<0, 0, 0>>
  /\ in_a = <<"1">>
  /\ in_b = s_1_0
  /\ in_c = s_1_0_beta
====
